---- MODULE Spec2Model ----
(***************************************************************************)
(* A model of the data lifecycle engine of pmezard/apec: the chunked       *)
(* key/value substrate (Tx over cznic/kv), the offer store built on it,    *)
(* the bolt-backed index queue and the crawler's three cooperating tasks.  *)
(*                                                                         *)
(* Byte strings are sequences of integers 0..255.  A Go []byte that may be *)
(* nil is a record [nil, b]: nil = TRUE is the nil slice (b = <<>>),       *)
(* nil = FALSE a non-nil slice, possibly of length 0.                      *)
(***************************************************************************)
EXTENDS Integers, Sequences, FiniteSets, TLC

VARIABLES
    kvdb,       \* SpecKV: the cznic/kv database under a KVDB
    kvMax,      \* SpecKV: KVDB.maxSize
    kvRef,      \* SpecKV: history variable, the value last Put and not Deleted per <<prefix, key>>
    kvLast,     \* SpecKV: history variable, the last committed operation
    sdb,        \* SpecStore: the kv database of the offer store
    sLast,      \* SpecStore: history variable, the last store call and what preceded it
    sLocSet,    \* SpecStore: history variable, ids with a PutLocation since their last Put
    queue,      \* SpecQueue: the bolt database of the IndexQueue
    qLog,       \* SpecQueue: history variable, every item queued so far, in order
    qDel,       \* SpecQueue: history variable, how many entries were deleted so far
    qLast,      \* SpecQueue: history variable, the last call and the queue before it
    cdb,        \* SpecCrawl: the store given to crawl
    seen,       \* SpecCrawl: the seen map, as the set of its keys
    lister,     \* SpecCrawl: the listing goroutine: pc, pending, pages, n, err
    fetcher,    \* SpecCrawl: the fetching goroutine: pc, ids, err
    coord,      \* SpecCrawl: crawl itself: pc, crawlingErr, listingErr, ids, ret
    chans,      \* SpecCrawl: which of idsChan, stopListing, crawlingDone are closed
    cHist,      \* SpecCrawl: history variable: the store at the start, the ids
                \* listed, the ids getOffer answered 404 for
    ixStore,    \* SpecIndexer: the store the Indexer reads
    ixIndex,    \* SpecIndexer: the document ids of the bleve index
    ixQueue,    \* SpecIndexer: the IndexQueue
    ixChan,     \* SpecIndexer: signals buffered in idx.reset and idx.work, done closed
    ixWorker,   \* SpecIndexer: the dispatch goroutine: pc and the batch being applied
    ixCloser,   \* SpecIndexer: the caller of Close
    ixHist,     \* SpecIndexer: history variable: Sync calls, failures
    gcCache,    \* SpecCache, SpecGeocoder: the geocoder cache, bucket "c" and bucket "p"
    gcHist,     \* SpecCache, SpecGeocoder: history variable: the last Put of each key,
                \* the lookups the remote provider completed, the last call
    tdb,        \* SpecKVTx: the kv.DB under a KVDB, uncommitted writes included
    ttx,        \* SpecKVTx: the Update call in progress: pc, the steps it made
    tHist,      \* SpecKVTx: history variable: the database when Update began,
                \* what IncSeq returned, the last call
    ages,       \* SpecAges: the offer ages stored under one fingerprint, as computed
    initialDates, \* SpecAges: the initial-date pointer of each offer id
    agLast,     \* SpecAges: history variable, the last call and the ages before it
    qpInput,    \* SpecQuery: the query expression typed so far and its word count
    qpResult,   \* SpecQuery: what Parse returned for it, if called
    pager,      \* SpecLister: enumerateOffers: pc, start, the last page, what it
                \* returned; history: the start index and length of each page
    fetch,      \* SpecTryHTTP: tryHTTP: arguments, pc, loops, delay, what it returned;
                \* history: the errors of doHTTP and the delays slept
    geoBatch,   \* SpecGeoBatch: geocodeOffers: the offers, pc, i, the candidates left, quota,
                \* found, rejected, what it returned; history: the remote calls
    resetQ,     \* a reset of the indexing queue on its own: the stored and the indexed
                \* id lists, the queue, the queue before the reset
    spStore,    \* SpecSpatial: the store the spatial indexer reads
    spIndex,    \* the SpatialIndex: known (id -> entry) and the entries of the R-tree
    spLast,     \* history: the last call, whether it failed, the store calls so far
    web,        \* SpecWeb: the crawl endpoint and the geocoding handler: the two locks and flags,
                \* the requests and background tasks at each step; history: arrivals, starts, ends
    finder,     \* SpecWhere: findOffersFromLocation: the geocoder cache, the where-string, what
                \* the call did
    kview       \* SpecStoreView: Store.Put and Store.Delete in KVDB.Update against a View: the
                \* database, the RWMutex, the steps left to the writer, what the reader read

kvVars == <<kvdb, kvMax, kvRef, kvLast>>
stVars == <<sdb, sLast, sLocSet>>
quVars == <<queue, qLog, qDel, qLast>>
crVars == <<cdb, seen, lister, fetcher, coord, chans, cHist>>
ixVars == <<ixStore, ixIndex, ixQueue, ixChan, ixWorker, ixCloser, ixHist>>
gcVars == <<gcCache, gcHist>>
txVars == <<tdb, ttx, tHist>>
agVars == <<ages, initialDates, agLast>>
qpVars == <<qpInput, qpResult>>
enVars == <<pager>>
thVars == <<fetch>>
gbVars == <<geoBatch>>
rsVars == <<resetQ>>
spVars == <<spStore, spIndex, spLast>>
wbVars == <<web>>
fdVars == <<finder>>
vwVars == <<kview>>
vars == <<kvVars, stVars, quVars, crVars, ixVars, gcVars, txVars, agVars, qpVars, enVars, thVars, gbVars, rsVars, spVars, wbVars, fdVars, vwVars>>

----------------------------------------------------------------------------
(* Bounds of the model *)

MaxValLen == 4      \* longest value written through Tx.Put in SpecKV
MaxChunk == 3       \* largest KVDB.maxSize tried in SpecKV (the smallest is 2)
MaxDeleted == 2     \* SpecStore: soft deletions recorded in one run
MaxBatch == 2       \* SpecQueue: items of one QueueMany call
MaxQueued == 4      \* SpecQueue: items queued in one run
MaxCount == 3       \* SpecQueue: largest count given to FetchMany and DeleteMany
PageCount == 2      \* SpecCrawl: ids of a full result page (count := 250 in the source)
MaxPages == 2       \* SpecCrawl: result pages the remote serves in one cycle
BatchCount == 2     \* SpecIndexer: items of one indexSome batch (count := 50 in the source)
MaxSync == 2        \* SpecIndexer: calls of Sync in one run
MaxStoreOps == 1    \* SpecIndexer: changes of the store while the Indexer runs

----------------------------------------------------------------------------
(* Go values *)

NilBytes == [nil |-> TRUE, b |-> <<>>]
Bytes(s) == [nil |-> FALSE, b |-> s]

\* append(buf, data...): appending nothing to a nil slice leaves it nil
GoAppend(buf, data) ==
    IF buf.nil /\ Len(data) = 0 THEN NilBytes ELSE Bytes(buf.b \o data)

HasPrefix(k, p) == Len(k) >= Len(p) /\ SubSeq(k, 1, Len(p)) = p
HasSuffix(k, n) == Len(k) >= Len(n) /\ SubSeq(k, Len(k) - Len(n) + 1, Len(k)) = n

Min(a, b) == IF a < b THEN a ELSE b
Max(a, b) == IF a > b THEN a ELSE b

\* bytes.Compare(a, b) < 0, the order of the keys of a kv.DB
BytesLess(a, b) ==
    \/ \E i \in 1..Min(Len(a), Len(b)) :
          /\ a[i] < b[i]
          /\ \A j \in 1..(i - 1) : a[j] = b[j]
    \/ /\ Len(a) < Len(b)
       /\ SubSeq(b, 1, Len(a)) = a

RECURSIVE SortKeys(_)
SortKeys(S) ==
    IF S = {} THEN <<>>
    ELSE LET m == CHOOSE x \in S : \A y \in S \ {x} : BytesLess(x, y)
         IN  <<m>> \o SortKeys(S \ {m})

MaxVarintLen32 == 5

\* binary.PutUvarint: 7 bits per byte, least significant group first
RECURSIVE Uvarint(_)
Uvarint(n) ==
    IF n < 128 THEN <<n>>
    ELSE <<(n % 128) + 128>> \o Uvarint(n \div 128)

Zeros(n) == [i \in 1..n |-> 0]

----------------------------------------------------------------------------
(* cznic/kv: an ordered map of byte keys; Inc keeps a counter under a key *)

EmptyDB == [data |-> <<>>, ctr |-> <<>>]

DbKeys(db) == DOMAIN db.data \cup DOMAIN db.ctr

DbGet(db, k) == IF k \in DOMAIN db.data THEN Bytes(db.data[k]) ELSE NilBytes

DbSet(db, k, v) ==
    [db EXCEPT !.data = [x \in DOMAIN db.data \cup {k} |->
                            IF x = k THEN v ELSE db.data[x]]]

DbDelete(db, k) ==
    [db EXCEPT !.data = [x \in DOMAIN db.data \ {k} |-> db.data[x]]]

DbCtr(db, k) == IF k \in DOMAIN db.ctr THEN db.ctr[k] ELSE 0

\* kv.DB.Inc(key, delta): the new value is stored and returned
DbInc(db, k, delta) ==
    [db EXCEPT !.ctr = [x \in DOMAIN db.ctr \cup {k} |->
                           IF x = k THEN DbCtr(db, k) + delta ELSE db.ctr[x]]]

----------------------------------------------------------------------------
(* KVDB: Tx over a kv.DB *)

maxKVSize == 65787

\* OpenKVDB: a maxSize <= 1 selects the default
OpenMaxSize(maxSize) == IF maxSize <= 1 THEN maxKVSize ELSE maxSize

\* NewKVDBKeys + Next: the key of chunk i >= 1 of <<prefix, key>>
KVDBKeysNext(prefix, key, i) ==
    LET v == Uvarint(i)
    IN  prefix \o <<0>> \o key \o <<0>> \o v \o Zeros(MaxVarintLen32 - Len(v))

sizePrefix(prefix) == prefix \o <<45, 110>>     \* "-n"

\* the key of a counter that leaves the prefix out
seqKeyShared(prefix) == <<45, 115, 101, 113>>

seqKey(prefix) == prefix \o <<45, 115, 101, 113>>   \* "-seq"

\* The version of Tx.Get that preceded the empty-value fix: a stored empty
\* value reads back as nil.
RECURSIVE TxGetLoopNoEmpty(_, _, _, _, _, _)
TxGetLoopNoEmpty(db, maxSize, prefix, key, i, buf) ==
    LET data == DbGet(db, KVDBKeysNext(prefix, key, i))
        buf1 == GoAppend(buf, data.b)
    IN  IF data.nil THEN buf
        ELSE IF Len(data.b) # maxSize THEN buf1
        ELSE TxGetLoopNoEmpty(db, maxSize, prefix, key, i + 1,
                              Bytes(SubSeq(buf1.b, 1, Len(buf1.b) - 1)))

RECURSIVE TxGetLoop(_, _, _, _, _, _)
TxGetLoop(db, maxSize, prefix, key, i, buf) ==
    LET data == DbGet(db, KVDBKeysNext(prefix, key, i))
        buf1 == IF buf.nil /\ Len(data.b) = 0 THEN Bytes(<<>>)
                ELSE GoAppend(buf, data.b)
    IN  IF data.nil THEN buf
        ELSE IF Len(data.b) # maxSize THEN buf1
        ELSE TxGetLoop(db, maxSize, prefix, key, i + 1,
                       Bytes(SubSeq(buf1.b, 1, Len(buf1.b) - 1)))

TxGet(db, maxSize, prefix, key) ==
    TxGetLoop(db, maxSize, prefix, key, 1, NilBytes)

\* Tx.List with the prefix compared without its separator byte
RECURSIVE TxListLoopNoSep(_, _, _, _)
TxListLoopNoSep(enum, i, prefix, keys) ==
    LET p == prefix
        n == <<0, 1, 0, 0, 0, 0>>
        k == enum[i]
    IN  IF i > Len(enum) THEN keys
        ELSE IF ~HasPrefix(k, p) THEN keys
        ELSE IF ~HasSuffix(k, n) THEN TxListLoopNoSep(enum, i + 1, prefix, keys)
        ELSE TxListLoopNoSep(enum, i + 1, prefix,
                 Append(keys, SubSeq(k, Len(p) + 2, Len(k) - Len(n))))

RECURSIVE TxListLoop(_, _, _, _)
TxListLoop(enum, i, prefix, keys) ==
    LET p == prefix \o <<0>>
        n == <<0, 1, 0, 0, 0, 0>>
        k == enum[i]
    IN  IF i > Len(enum) THEN keys
        ELSE IF ~HasPrefix(k, p) THEN keys
        ELSE IF ~HasSuffix(k, n) THEN TxListLoop(enum, i + 1, prefix, keys)
        ELSE TxListLoop(enum, i + 1, prefix,
                 Append(keys, SubSeq(k, Len(p) + 1, Len(k) - Len(n))))

\* kv.DB.Seek(p): an enumerator placed on the first key >= p
Seek(db, p) == SortKeys({k \in DbKeys(db) : ~BytesLess(k, p)})

TxList(db, prefix) == TxListLoop(Seek(db, prefix \o <<0>>), 1, prefix, <<>>)

RECURSIVE TxDeleteLoop(_, _, _, _, _)
TxDeleteLoop(db, maxSize, prefix, key, i) ==
    LET k == KVDBKeysNext(prefix, key, i)
        data == DbGet(db, k)
        db1 == DbDelete(db, k)
    IN  IF data.nil THEN db
        ELSE IF Len(data.b) < maxSize THEN DbInc(db1, sizePrefix(prefix), -1)
        ELSE TxDeleteLoop(db1, maxSize, prefix, key, i + 1)

TxDelete(db, maxSize, prefix, key) == TxDeleteLoop(db, maxSize, prefix, key, 1)

\* The chunk loop of Tx.Put.  buf is zeroed by make and only its first
\* maxSize-1 bytes are ever overwritten, so a full chunk ends with a 0 byte.
RECURSIVE TxPutLoop(_, _, _, _, _, _)
TxPutLoop(db, maxSize, prefix, key, i, value) ==
    LET full == Len(value) >= maxSize
        k == maxSize - 1
        data == IF full THEN SubSeq(value, 1, k) \o <<0>> ELSE value
        rest == IF full THEN SubSeq(value, k + 1, Len(value)) ELSE <<>>
        db1 == DbSet(db, KVDBKeysNext(prefix, key, i), data)
    IN  IF Len(rest) = 0 THEN db1
        ELSE TxPutLoop(db1, maxSize, prefix, key, i + 1, rest)

\* Tx.Put that leaves the size counter alone
TxPutNoCount(db, maxSize, prefix, key, value) ==
    LET db1 == TxDelete(db, maxSize, prefix, key)
    IN  TxPutLoop(db1, maxSize, prefix, key, 1, value)

TxPut(db, maxSize, prefix, key, value) ==
    LET db1 == TxDelete(db, maxSize, prefix, key)
        db2 == TxPutLoop(db1, maxSize, prefix, key, 1, value)
    IN  DbInc(db2, sizePrefix(prefix), 1)

\* Tx.IncSeq that leaves the sequence where it is
TxIncSeqStuck(db, prefix, delta) == DbInc(db, seqKey(prefix), 0)

\* Tx.IncSeq / Tx.GetSeq / Tx.Size
TxIncSeq(db, prefix, delta) == DbInc(db, seqKey(prefix), delta)
TxGetSeq(db, prefix) == DbCtr(db, seqKey(prefix))
TxSize(db, prefix) == DbCtr(db, sizePrefix(prefix))

----------------------------------------------------------------------------
(* Go time.Time: unix seconds and nanoseconds.  The zero Time (year 1) has *)
(* the unix second -62135596800, scaled here to -62.                       *)

ZeroTime == [unix |-> -62, nsec |-> 0]
IsZero(t) == t = ZeroTime
TimeUnix(sec) == [unix |-> sec, nsec |-> 0]     \* time.Unix(sec, 0)
RFC3339(t) == t.unix                            \* Format(time.RFC3339): whole seconds

\* binary.Write(w, binary.LittleEndian, int64 / float64): 8 bytes, two's
\* complement, exact for |n| < 2^15
Int64LE(n) ==
    LET m == IF n >= 0 THEN n ELSE n + 65536
        ext == IF n >= 0 THEN 0 ELSE 255
    IN  <<m % 256, (m \div 256) % 256, ext, ext, ext, ext, ext, ext>>

ReadInt64LE(b) ==
    LET lo == b[1] + 256 * b[2]
    IN  IF b[8] >= 128 THEN lo - 65536 ELSE lo

\* binary.Uvarint(b): [val, n], n = 0 when b holds no final byte
RECURSIVE UvarintDecode(_, _, _, _)
UvarintDecode(b, i, mult, acc) ==
    IF i > Len(b) THEN [val |-> 0, n |-> 0]
    ELSE IF b[i] < 128 THEN [val |-> acc + b[i] * mult, n |-> i]
    ELSE UvarintDecode(b, i + 1, mult * 128, acc + (b[i] - 128) * mult)

\* binary.PutVarint(buf, x) for x >= 0: zig-zag, then PutUvarint over buf
PutVarint(buf, x) ==
    LET v == Uvarint(2 * x)
    IN  v \o SubSeq(buf, Len(v) + 1, Len(buf))

\* binary.Varint(b): [val, n]
Varint(b) ==
    LET u == UvarintDecode(b, 1, 1, 0)
    IN  [val |-> IF u.val % 2 = 0 THEN u.val \div 2 ELSE -((u.val + 1) \div 2),
         n |-> u.n]

----------------------------------------------------------------------------
(* Location and its binary encoding (geocoder.go) *)

ZeroLocation ==
    [City |-> <<>>, County |-> <<>>, State |-> <<>>, Country |-> <<>>,
     PostCode |-> <<>>, Lat |-> 0, Lon |-> 0]

NoLoc == [nil |-> TRUE, v |-> ZeroLocation]     \* a nil *Location
Loc(l) == [nil |-> FALSE, v |-> l]

\* writeBinaryString: [w, buf] after writing s; buf keeps the varint bytes
writeBinaryString(w, buf, s) ==
    LET buf1 == PutVarint(buf, Len(s))
    IN  [w |-> w \o SubSeq(buf1, 1, MaxVarintLen32) \o s, buf |-> buf1]

writeBinaryLocation(w, pos) ==
    LET a == writeBinaryString(w, Zeros(MaxVarintLen32), pos.City)
        b == writeBinaryString(a.w, a.buf, pos.County)
        c == writeBinaryString(b.w, b.buf, pos.State)
        d == writeBinaryString(c.w, c.buf, pos.Country)
    IN  d.w \o Int64LE(pos.Lat) \o Int64LE(pos.Lon)

\* io.ReadFull(r, n bytes): [b, rest, err]
ReadFull(r, n) ==
    IF Len(r) < n THEN [b |-> r, rest |-> <<>>, err |-> TRUE]
    ELSE [b |-> SubSeq(r, 1, n), rest |-> SubSeq(r, n + 1, Len(r)), err |-> FALSE]

\* readBinaryString: [s, rest, err]
readBinaryString(r) ==
    LET h == ReadFull(r, MaxVarintLen32)
        l == Varint(h.b)
        body == ReadFull(h.rest, l.val)
    IN  IF h.err THEN [s |-> <<>>, rest |-> h.rest, err |-> TRUE]
        ELSE IF l.n <= 0 THEN [s |-> <<>>, rest |-> h.rest, err |-> TRUE]
        ELSE IF body.err THEN [s |-> <<>>, rest |-> body.rest, err |-> TRUE]
        ELSE [s |-> body.b, rest |-> body.rest, err |-> FALSE]

\* readBinaryLocation: [loc, rest, err]; PostCode is not part of the encoding
readBinaryLocation(r) ==
    LET a == readBinaryString(r)
        b == readBinaryString(a.rest)
        c == readBinaryString(b.rest)
        d == readBinaryString(c.rest)
        f == ReadFull(d.rest, 16)
    IN  [loc |-> [City |-> a.s, County |-> b.s, State |-> c.s, Country |-> d.s,
                  PostCode |-> <<>>,
                  Lat |-> IF f.err THEN 0 ELSE ReadInt64LE(SubSeq(f.b, 1, 8)),
                  Lon |-> IF f.err THEN 0 ELSE ReadInt64LE(SubSeq(f.b, 9, 16))],
         rest |-> f.rest,
         err |-> a.err \/ b.err \/ c.err \/ d.err \/ f.err]

----------------------------------------------------------------------------
(* The offer store over a KVDB opened with the default maxSize *)

kvOffersBucket == <<111>>           \* "o"
kvLocationsBucket == <<108>>        \* "l"
kvDeletedBucket == <<100>>          \* "d"
kvDeletedKeysBucket == <<100, 107>> \* "dk"

storeMaxSize == OpenMaxSize(0)

storeVersion == 3

\* setKVDBVersion: [err, db]; a downgrade is refused
setKVDBVersion(db, prefix, version) ==
    LET current == TxGetSeq(db, prefix)
    IN  IF current > version THEN [err |-> TRUE, db |-> db]
        ELSE IF current = version THEN [err |-> FALSE, db |-> db]
        ELSE [err |-> FALSE, db |-> TxIncSeq(db, prefix, version - current)]

\* UpgradeOldStore on a new directory
OpenNewStore == setKVDBVersion(EmptyDB, kvOffersBucket, storeVersion).db

uintToBytes(id) == Uvarint(id)

\* json.Marshal of deletedOffers{Ids: [{Id, Date}]}: here the flat list of
\* the pairs, one byte per field
RECURSIVE MarshalDeleted(_)
MarshalDeleted(ids) ==
    IF ids = <<>> THEN <<>>
    ELSE <<Head(ids).Id, Head(ids).Date>> \o MarshalDeleted(Tail(ids))

\* json.Unmarshal into deletedOffers
UnmarshalDeleted(data) ==
    [i \in 1..(Len(data) \div 2) |-> [Id |-> data[2 * i - 1], Date |-> data[2 * i]]]

\* Store.getJson for deletedOffers: the zero value when the key is absent
getJson(db, prefix, key) ==
    LET data == TxGet(db, storeMaxSize, prefix, key)
    IN  IF data.nil THEN <<>> ELSE UnmarshalDeleted(data.b)

putJson(db, prefix, key, ids) ==
    TxPut(db, storeMaxSize, prefix, key, MarshalDeleted(ids))

\* Store.Put without the invalidation of the cached location
StorePutKeepLocation(db, id, data) ==
    TxPut(db, storeMaxSize, kvOffersBucket, id, data)

StorePut(db, id, data) ==
    LET db1 == TxDelete(db, storeMaxSize, kvLocationsBucket, id)
    IN  TxPut(db1, storeMaxSize, kvOffersBucket, id, data)

StoreHas(db, id) == ~TxGet(db, storeMaxSize, kvOffersBucket, id).nil

StoreGet(db, id) == TxGet(db, storeMaxSize, kvOffersBucket, id)

\* Store.Delete that drops the live offer without moving its bytes
StoreDeleteNoMove(db, id, now) ==
    LET db1 == TxDelete(db, storeMaxSize, kvLocationsBucket, id)
    IN  TxDelete(db1, storeMaxSize, kvOffersBucket, id)

StoreDelete(db, id, now) ==
    LET data == TxGet(db, storeMaxSize, kvOffersBucket, id)
        db1 == TxIncSeq(db, kvDeletedBucket, 1)
        deletedId == TxGetSeq(db1, kvDeletedBucket)
        db2 == TxPut(db1, storeMaxSize, kvDeletedBucket, uintToBytes(deletedId), data.b)
        deletedKeys == Append(getJson(db2, kvDeletedKeysBucket, id),
                              [Id |-> deletedId, Date |-> RFC3339(now)])
        db3 == putJson(db2, kvDeletedKeysBucket, id, deletedKeys)
        db4 == TxDelete(db3, storeMaxSize, kvLocationsBucket, id)
    IN  IF data.nil THEN db
        ELSE TxDelete(db4, storeMaxSize, kvOffersBucket, id)

StoreListDeletedIds(db) == TxList(db, kvDeletedKeysBucket)

StoreListDeletedOffers(db, id) ==
    LET data == TxGet(db, storeMaxSize, kvDeletedKeysBucket, id)
    IN  IF data.nil THEN <<>> ELSE UnmarshalDeleted(data.b)

StoreGetDeleted(db, id) == TxGet(db, storeMaxSize, kvDeletedBucket, uintToBytes(id))

StoreList(db) == TxList(db, kvOffersBucket)

StoreSize(db) == Len(TxList(db, kvOffersBucket))

\* PutLocation that writes the location without looking for the live offer
StorePutLocationUnchecked(db, id, loc, date) ==
    LET w == IF loc.nil THEN <<>>
             ELSE writeBinaryLocation(<<>>, loc.v) \o Int64LE(date.unix)
    IN  [err |-> FALSE, db |-> TxPut(db, storeMaxSize, kvLocationsBucket, id, w)]

\* PutLocation: [err, db]; an error rolls the (empty) transaction back
StorePutLocation(db, id, loc, date) ==
    LET data == TxGet(db, storeMaxSize, kvOffersBucket, id)
        w == IF loc.nil THEN <<>>
             ELSE writeBinaryLocation(<<>>, loc.v) \o Int64LE(date.unix)
    IN  IF data.nil THEN [err |-> TRUE, db |-> db]
        ELSE [err |-> FALSE, db |-> TxPut(db, storeMaxSize, kvLocationsBucket, id, w)]

\* GetLocation that leaves the date of an empty blob zero
StoreGetLocationNoStamp(db, id) ==
    LET data == TxGet(db, storeMaxSize, kvLocationsBucket, id)
        point == readBinaryLocation(data.b)
        ts == ReadFull(point.rest, 8)
    IN  IF Len(data.b) = 0
        THEN [loc |-> NoLoc, date |-> ZeroTime, err |-> FALSE]
        ELSE IF point.err \/ ts.err
        THEN [loc |-> NoLoc, date |-> ZeroTime, err |-> TRUE]
        ELSE [loc |-> Loc(point.loc), date |-> TimeUnix(ReadInt64LE(ts.b)),
              err |-> FALSE]

\* GetLocation: [loc, date, err]
StoreGetLocation(db, id) ==
    LET data == TxGet(db, storeMaxSize, kvLocationsBucket, id)
        point == readBinaryLocation(data.b)
        ts == ReadFull(point.rest, 8)
    IN  IF Len(data.b) = 0
        THEN [loc |-> NoLoc, date |-> IF ~data.nil THEN TimeUnix(1) ELSE ZeroTime,
              err |-> FALSE]
        ELSE IF point.err \/ ts.err
        THEN [loc |-> NoLoc, date |-> ZeroTime, err |-> TRUE]
        ELSE [loc |-> Loc(point.loc), date |-> TimeUnix(ReadInt64LE(ts.b)),
              err |-> FALSE]

----------------------------------------------------------------------------
(* IndexQueue over bolt: bucket "q" (uvarint(seq) -> JSON item) with its   *)
(* bucket sequence, and bucket "s" holding the cursor under key "m".       *)

AddOp == 0
RemoveOp == 1

\* OpenIndexQueue on a new file: empty buckets, sequence 0, no cursor
EmptyQueue == [bucket |-> <<>>, seq |-> 0, min |-> NilBytes]

\* json.Marshal(&item) of a Queued{Seq, Id, Op}: here seq, op, then the id
MarshalQueued(item) == <<item.Seq, item.Op>> \o item.Id

\* json.Unmarshal(data, &item)
UnmarshalQueued(data) ==
    [Seq |-> data[1], Id |-> SubSeq(data, 3, Len(data)), Op |-> data[2]]

BucketGet(b, k) == IF k \in DOMAIN b THEN Bytes(b[k]) ELSE NilBytes
BucketPut(b, k, v) == [x \in DOMAIN b \cup {k} |-> IF x = k THEN v ELSE b[x]]
BucketDelete(b, k) == [x \in DOMAIN b \ {k} |-> b[x]]

\* getMinSeq: [seq, ok]
getMinSeq(q) ==
    LET seq == UvarintDecode(q.min.b, 1, 1, 0).val
    IN  IF q.min.nil THEN [seq |-> 0, ok |-> FALSE]
        ELSE [seq |-> seq, ok |-> seq # 0]

\* putMinSeq that writes nothing
putMinSeqDropped(q, seqBytes) == q

putMinSeq(q, seqBytes) == [q EXCEPT !.min = Bytes(seqBytes)]

\* QueueMany whose first item always moves the cursor
RECURSIVE QueueManyLoopResetMin(_, _, _)
QueueManyLoopResetMin(q, items, i) ==
    LET seq == q.seq + 1
        q1 == [q EXCEPT !.seq = seq]
        key == Uvarint(seq)
        q2 == IF i = 1 THEN putMinSeq(q1, key) ELSE q1
        item == [Seq |-> seq, Id |-> items[i].Id, Op |-> items[i].Op]
        q3 == [q2 EXCEPT !.bucket = BucketPut(q2.bucket, key, MarshalQueued(item))]
    IN  IF i > Len(items) THEN q
        ELSE QueueManyLoopResetMin(q3, items, i + 1)

\* the loop of QueueMany, i = 1 for the first item
RECURSIVE QueueManyLoop(_, _, _)
QueueManyLoop(q, items, i) ==
    LET seq == q.seq + 1
        q1 == [q EXCEPT !.seq = seq]
        key == Uvarint(seq)
        q2 == IF i = 1 /\ ~getMinSeq(q1).ok THEN putMinSeq(q1, key) ELSE q1
        item == [Seq |-> seq, Id |-> items[i].Id, Op |-> items[i].Op]
        q3 == [q2 EXCEPT !.bucket = BucketPut(q2.bucket, key, MarshalQueued(item))]
    IN  IF i > Len(items) THEN q
        ELSE QueueManyLoop(q3, items, i + 1)

QueueMany(q, items) == QueueManyLoop(q, items, 1)

RECURSIVE FetchManyLoop(_, _, _, _)
FetchManyLoop(q, seq, count, queued) ==
    LET data == BucketGet(q.bucket, Uvarint(seq))
    IN  IF count <= 0 THEN queued
        ELSE IF data.nil THEN queued
        ELSE FetchManyLoop(q, seq + 1, count - 1,
                           Append(queued, UnmarshalQueued(data.b)))

FetchMany(q, count) ==
    LET m == getMinSeq(q)
    IN  IF ~m.ok THEN <<>> ELSE FetchManyLoop(q, m.seq, count, <<>>)

\* DeleteMany whose loop does not stop at the first missing entry
RECURSIVE DeleteManyLoopNoBreak(_, _, _)
DeleteManyLoopNoBreak(q, minSeq, count) ==
    LET key == Uvarint(minSeq)
    IN  IF count <= 0 THEN putMinSeq(q, Uvarint(minSeq))
        ELSE DeleteManyLoopNoBreak(
                 [q EXCEPT !.bucket = BucketDelete(q.bucket, key)],
                 minSeq + 1, count - 1)

RECURSIVE DeleteManyLoop(_, _, _)
DeleteManyLoop(q, minSeq, count) ==
    LET key == Uvarint(minSeq)
        data == BucketGet(q.bucket, key)
    IN  IF count <= 0 THEN putMinSeq(q, Uvarint(minSeq))
        ELSE IF data.nil THEN putMinSeq(q, Uvarint(minSeq))
        ELSE DeleteManyLoop([q EXCEPT !.bucket = BucketDelete(q.bucket, key)],
                            minSeq + 1, count - 1)

DeleteMany(q, count) ==
    LET m == getMinSeq(q)
    IN  IF ~m.ok THEN q ELSE DeleteManyLoop(q, m.seq, count)

\* IndexQueue.Size: the number of keys of the bucket
QueueSize(q) == Cardinality(DOMAIN q.bucket)

\* the nil error
NoErr == "nil"

----------------------------------------------------------------------------
(* The geocoder and its cache (geocoder.go) *)

\* OpenCache on a new file: the buckets "c" (raw responses) and "p" (points)
EmptyCache == [c |-> <<>>, p |-> <<>>]

\* Cache.Put: both buckets are written in one bolt Update transaction; a nil
\* pos leaves the point empty
CachePutSkipNil(cache, key, data, pos) ==
    [c |-> BucketPut(cache.c, key, data),
     p |-> IF pos.nil THEN cache.p ELSE BucketPut(cache.p, key, writeBinaryLocation(<<>>, pos.v))]

CachePut(cache, key, data, pos) ==
    [c |-> BucketPut(cache.c, key, data),
     p |-> BucketPut(cache.p, key,
                     IF pos.nil THEN <<>> ELSE writeBinaryLocation(<<>>, pos.v))]

\* Cache.Get: the raw response, nil for a key the bucket does not hold
CacheGet(cache, key) == BucketGet(cache.c, key)

\* Cache.GetLocation: [loc, found, err]
CacheGetLocation(cache, key) ==
    LET data == BucketGet(cache.p, key)
        point == readBinaryLocation(data.b)
    IN  IF Len(data.b) = 0
        THEN [loc |-> NoLoc, found |-> ~data.nil, err |-> FALSE]
        ELSE IF point.err
        THEN [loc |-> NoLoc, found |-> ~data.nil, err |-> TRUE]
        ELSE [loc |-> Loc(point.loc), found |-> ~data.nil, err |-> FALSE]

\* strings.ToLower on ASCII bytes
ToLower(s) == [i \in 1..Len(s) |-> IF s[i] >= 65 /\ s[i] <= 90 THEN s[i] + 32 ELSE s[i]]

\* makeKeyAndCountryCode: [key, code]
makeKeyAndCountryCode(q, code) ==
    LET lower == ToLower(code)
        cc == IF lower = <<>> THEN <<117, 110, 107>> ELSE lower     \* "unk"
    IN  [key |-> q \o <<45>> \o cc, code |-> cc]

\* a nil *jstruct.Location, and the decoded documents
NoDoc == [nil |-> TRUE, Cached |-> FALSE, Results |-> <<>>]
Doc(results) == [nil |-> FALSE, Cached |-> FALSE, Results |-> results]

\* one entry of "results": the components and, unless absent, the geometry
DocResult(c, geometry) ==
    [Component |-> [City |-> <<c>>, PostCode |-> <<c, c>>, County |-> <<>>,
                    State |-> <<c + 1>>, Country |-> <<70>>],
     Geometry |-> [nil |-> ~geometry, Lat |-> c, Lon |-> c + 1]]

\* ffjson.Unmarshal(data, res) of a response body: [res, err]. A body is
\* written here as its kind, 1 for one located result, 2 for no result, 3 for
\* one result without geometry, then the byte its fields are made of; anything
\* else, the empty body included, does not parse
Unmarshal(data) ==
    IF Len(data) = 1 /\ data[1] = 2 THEN [res |-> Doc(<<>>), err |-> FALSE]
    ELSE IF Len(data) = 2 /\ data[1] = 1
    THEN [res |-> Doc(<<DocResult(data[2], TRUE)>>), err |-> FALSE]
    ELSE IF Len(data) = 2 /\ data[1] = 3
    THEN [res |-> Doc(<<DocResult(data[2], FALSE)>>), err |-> FALSE]
    ELSE [res |-> Doc(<<>>), err |-> TRUE]

buildLocation(loc) ==
    IF ~loc.nil /\ Len(loc.Results) > 0 /\ ~loc.Results[1].Geometry.nil
    THEN LET r == loc.Results[1].Component
             g == loc.Results[1].Geometry
         IN  Loc([City |-> r.City, PostCode |-> r.PostCode, County |-> r.County,
                  State |-> r.State, Country |-> r.Country,
                  Lat |-> g.Lat, Lon |-> g.Lon])
    ELSE NoLoc

\* geocodeFromCache: [res, err]
geocodeFromCache(cache, q, countryCode) ==
    LET key == makeKeyAndCountryCode(q, countryCode).key
        data == CacheGet(cache, key)
        u == Unmarshal(data.b)
    IN  IF Len(data.b) = 0 THEN [res |-> NoDoc, err |-> NoErr]
        ELSE [res |-> [u.res EXCEPT !.Cached = TRUE],
              err |-> IF u.err THEN "json" ELSE NoErr]

\* Geocode returns what the cache gave without calling the provider
AnsweredOnlyOffline(err, res, offline) == offline

Answered(err, res, offline) == err # NoErr \/ ~res.nil \/ offline

\* Geocode: [res, err, cache, called]; remote is what rawGeocode and ReadAll
\* give when they are called, [err, body]
Geocode(cache, q, countryCode, offline, remote) ==
    LET cached == geocodeFromCache(cache, q, countryCode)
        u == Unmarshal(remote.body)
        key == makeKeyAndCountryCode(q, countryCode).key
    IN  IF Answered(cached.err, cached.res, offline)
        THEN [res |-> cached.res, err |-> cached.err, cache |-> cache, called |-> FALSE]
        ELSE IF remote.err # NoErr
        THEN [res |-> NoDoc, err |-> remote.err, cache |-> cache, called |-> TRUE]
        ELSE IF u.err
        THEN [res |-> NoDoc, err |-> "json", cache |-> cache, called |-> TRUE]
        ELSE [res |-> u.res, err |-> NoErr,
              cache |-> CachePut(cache, key, remote.body, buildLocation(u.res)),
              called |-> TRUE]

\* GetCachedLocation
GetCachedLocation(cache, q, countryCode) ==
    CacheGetLocation(cache, makeKeyAndCountryCode(q, countryCode).key)

----------------------------------------------------------------------------
(* SpecKV: committed Update transactions holding one Put or one Delete *)

KVPrefixes == {kvDeletedBucket, kvDeletedKeysBucket}
KVKeys == {<<97>>, <<97, 98>>}      \* "a", "ab"

\* the <<prefix, key>> pairs written to; <<"dk", "ab">> is never written
KVSlots == {<<kvDeletedBucket, <<97>>>>, <<kvDeletedBucket, <<97, 98>>>>,
            <<kvDeletedKeysBucket, <<97>>>>}

\* one value of every length 0..MaxValLen and a second one of the greatest
\* length; 0 bytes included
KVValues == {[i \in 1..n |-> i % 3] : n \in 0..MaxValLen}
            \cup {[i \in 1..MaxValLen |-> (i + 1) % 3]}

KVIdle ==
    /\ kvdb = EmptyDB
    /\ kvMax = maxKVSize
    /\ kvRef = <<>>
    /\ kvLast = [op |-> "open", p |-> <<>>, k |-> <<>>, oldLen |-> -1]

StIdle ==
    /\ sdb = EmptyDB
    /\ sLast = [op |-> "open"]
    /\ sLocSet = {}

QuIdle ==
    /\ queue = EmptyQueue
    /\ qLog = <<>>
    /\ qDel = 0
    /\ qLast = [op |-> "open", n |-> 0, pre |-> EmptyQueue]


CrIdle ==
    /\ cdb = EmptyDB
    /\ seen = {}
    /\ lister = [pc |-> "done", pending |-> <<>>, pages |-> 0, n |-> 0, err |-> NoErr]
    /\ fetcher = [pc |-> "done", ids |-> <<>>, err |-> NoErr]
    /\ coord = [pc |-> "done", crawlingErr |-> NoErr, listingErr |-> NoErr,
                ids |-> <<>>, ret |-> NoErr]
    /\ chans = [idsChan |-> TRUE, stopListing |-> TRUE, crawlingDone |-> TRUE]
    /\ cHist = [db0 |-> EmptyDB, listed |-> {}, notfound |-> {}]

IxIdle ==
    /\ ixStore = EmptyDB
    /\ ixIndex = {}
    /\ ixQueue = EmptyQueue
    /\ ixChan = [reset |-> 0, work |-> 0, done |-> TRUE]
    /\ ixWorker = [pc |-> "exited", batch |-> <<>>]
    /\ ixCloser = [pc |-> "returned"]
    /\ ixHist = [syncs |-> 0, pending |-> 0, last |-> "none", item |-> <<>>,
                 fetched |-> <<>>, applied |-> 0, changes |-> 0]

GcIdle ==
    /\ gcCache = EmptyCache
    /\ gcHist = [put |-> <<>>, done |-> {}, last |-> [op |-> "open"]]

TxIdle ==
    /\ tdb = EmptyDB
    /\ ttx = [pc |-> "idle", n |-> 0]
    /\ tHist = [last |-> [op |-> "open"]]

AgIdle ==
    /\ ages = <<>>
    /\ initialDates = <<>>
    /\ agLast = [op |-> "open"]

QpIdle ==
    /\ qpInput = [words |-> 0, text |-> <<>>]
    /\ qpResult = [called |-> FALSE]

EnIdle ==
    /\ pager = [pc |-> "idle"]

ThIdle ==
    /\ fetch = [pc |-> "idle"]

GbIdle ==
    /\ geoBatch = [pc |-> "idle"]

RsIdle ==
    /\ resetQ = [pc |-> "idle"]

SpIdle ==
    /\ spStore = EmptyDB
    /\ spIndex = [known |-> <<>>, rtree |-> <<>>]
    /\ spLast = [op |-> "idle", err |-> FALSE, n |-> 0]

WbIdle ==
    /\ web = [pc |-> "idle"]

FdIdle ==
    /\ finder = [pc |-> "idle"]

VwIdle ==
    /\ kview = [pc |-> "idle"]

KVInit ==
    /\ StIdle
    /\ QuIdle
    /\ CrIdle
    /\ GcIdle
    /\ TxIdle
    /\ AgIdle
    /\ QpIdle
    /\ EnIdle
    /\ ThIdle
    /\ GbIdle
    /\ RsIdle
    /\ SpIdle
    /\ WbIdle
    /\ FdIdle
    /\ VwIdle
    /\ IxIdle
    /\ kvdb = EmptyDB
    /\ kvMax \in {OpenMaxSize(m) : m \in 2..MaxChunk}
    /\ kvRef = <<>>
    /\ kvLast = [op |-> "open", p |-> <<>>, k |-> <<>>, oldLen |-> -1]

\* length of the value held before the operation, -1 when there was none
KVOldLen(s) == IF s \in DOMAIN kvRef THEN Len(kvRef[s]) ELSE -1

KVPut ==
    \E s \in KVSlots, v \in KVValues :
        /\ kvdb' = TxPut(kvdb, kvMax, s[1], s[2], v)
        /\ kvRef' = [x \in DOMAIN kvRef \cup {s} |-> IF x = s THEN v ELSE kvRef[x]]
        /\ kvLast' = [op |-> "put", p |-> s[1], k |-> s[2], oldLen |-> KVOldLen(s)]
        /\ UNCHANGED <<kvMax, stVars, quVars, crVars, ixVars, gcVars, txVars, agVars, qpVars, enVars, thVars, gbVars, rsVars, spVars, wbVars, fdVars, vwVars>>

KVDelete ==
    \E s \in KVSlots :
        /\ kvdb' = TxDelete(kvdb, kvMax, s[1], s[2])
        /\ kvRef' = [x \in DOMAIN kvRef \ {s} |-> kvRef[x]]
        /\ kvLast' = [op |-> "delete", p |-> s[1], k |-> s[2], oldLen |-> KVOldLen(s)]
        /\ UNCHANGED <<kvMax, stVars, quVars, crVars, ixVars, gcVars, txVars, agVars, qpVars, enVars, thVars, gbVars, rsVars, spVars, wbVars, fdVars, vwVars>>

KVNext == KVPut \/ KVDelete

SpecKV == KVInit /\ [][KVNext]_vars

----------------------------------------------------------------------------
\* C5: Get(p,k) returns exactly the value of the last committed Put(p,k,v),
\* whatever its length relative to maxSize and whatever value it overwrote;
\* Get of a key never written (or deleted) returns nil, which differs from
\* the non-nil empty slice returned for a stored empty value.
C5_RoundTrip ==
    \A p \in KVPrefixes, k \in KVKeys :
        TxGet(kvdb, kvMax, p, k) =
            IF <<p, k>> \in DOMAIN kvRef THEN Bytes(kvRef[<<p, k>>]) ELSE NilBytes

\* an overwrite of a multi-chunk value by the empty value, another key never written
C5_Witness ==
    /\ kvLast.op = "put"
    /\ kvLast.oldLen > kvMax
    /\ TxGet(kvdb, kvMax, kvLast.p, kvLast.k) = Bytes(<<>>)
    /\ \E k \in KVKeys : TxGet(kvdb, kvMax, kvLast.p, k) = NilBytes
    /\ \E s \in DOMAIN kvRef : Len(kvRef[s]) = kvMax - 1
    /\ \E s \in DOMAIN kvRef : Len(kvRef[s]) = kvMax

\* C6: List(p) is exactly the keys k with Get(p,k) not nil, each once,
\* in ascending byte order, whatever number of chunks the values occupy and
\* whatever is stored under the other prefix ("d" against "dk").
C6_ListExact ==
    \A p \in KVPrefixes :
        TxList(kvdb, p) = SortKeys({k \in KVKeys : ~TxGet(kvdb, kvMax, p, k).nil})

\* "d" holds both keys, one of them in several chunks, while "dk" holds a key too
C6_Witness ==
    /\ TxList(kvdb, kvDeletedBucket) = <<<<97>>, <<97, 98>>>>
    /\ TxList(kvdb, kvDeletedKeysBucket) = <<<<97>>>>
    /\ \E s \in DOMAIN kvRef : s[1] = kvDeletedBucket /\ Len(kvRef[s]) > kvMax
    /\ kvLast.op = "put"
    /\ kvLast.oldLen >= 0

----------------------------------------------------------------------------
(* SpecStore: calls of the offer store API on a newly opened store *)

StoreIds == {<<97>>, <<98>>}                    \* "a", "b"
OfferBytes == {<<>>, <<2, 3>>}
Paris ==
    [City |-> <<80>>, County |-> <<>>, State |-> <<73, 68, 70>>, Country |-> <<70>>,
     PostCode |-> <<55>>, Lat |-> 48, Lon |-> 2]
StoreLocs == {NoLoc, Loc(Paris)}
StoreDates == {ZeroTime, [unix |-> 3, nsec |-> 0]}     \* offer.Date
StoreNows == {[unix |-> 4, nsec |-> 6]}                 \* time.Now()

\* what Store.GetLocation reports before a call: "absent", "empty" or "resolved"
LocState(db, id) ==
    LET data == TxGet(db, storeMaxSize, kvLocationsBucket, id)
    IN  IF data.nil THEN "absent" ELSE IF Len(data.b) = 0 THEN "empty" ELSE "resolved"

\* the record of a call: pre is the live bytes a Delete found, hadLoc the
\* cached location a Put or PutLocation found
StLast(op, id, err, loc, date) ==
    [op |-> op, id |-> id, err |-> err,
     pre |-> IF op = "delete" THEN StoreGet(sdb, id) ELSE NilBytes,
     hadLoc |-> IF op = "delete" THEN "absent" ELSE LocState(sdb, id),
     loc |-> loc, date |-> date]

StInit ==
    /\ KVIdle
    /\ QuIdle
    /\ CrIdle
    /\ GcIdle
    /\ TxIdle
    /\ AgIdle
    /\ QpIdle
    /\ EnIdle
    /\ ThIdle
    /\ GbIdle
    /\ RsIdle
    /\ SpIdle
    /\ WbIdle
    /\ FdIdle
    /\ VwIdle
    /\ IxIdle
    /\ sdb = OpenNewStore
    /\ sLast = StLast("open", <<>>, FALSE, NoLoc, ZeroTime)
    /\ sLocSet = {}

SPut ==
    \E id \in StoreIds, data \in OfferBytes :
        /\ sdb' = StorePut(sdb, id, data)
        /\ sLast' = StLast("put", id, FALSE, NoLoc, ZeroTime)
        /\ sLocSet' = sLocSet \ {id}
        /\ UNCHANGED <<kvVars, quVars, crVars, ixVars, gcVars, txVars, agVars, qpVars, enVars, thVars, gbVars, rsVars, spVars, wbVars, fdVars, vwVars>>

SDelete ==
    \E id \in StoreIds, now \in StoreNows :
        /\ StoreHas(sdb, id) => TxGetSeq(sdb, kvDeletedBucket) < MaxDeleted
        /\ sdb' = StoreDelete(sdb, id, now)
        /\ sLast' = StLast("delete", id, FALSE, NoLoc, ZeroTime)
        /\ sLocSet' = sLocSet \ {id}
        /\ UNCHANGED <<kvVars, quVars, crVars, ixVars, gcVars, txVars, agVars, qpVars, enVars, thVars, gbVars, rsVars, spVars, wbVars, fdVars, vwVars>>

SPutLocation ==
    \E id \in StoreIds, loc \in StoreLocs, date \in StoreDates :
        LET r == StorePutLocation(sdb, id, loc, date)
        IN  /\ sdb' = r.db
            /\ sLast' = StLast("putloc", id, r.err, loc, date)
            /\ sLocSet' = IF r.err THEN sLocSet ELSE sLocSet \cup {id}
            /\ UNCHANGED <<kvVars, quVars, crVars, ixVars, gcVars, txVars, agVars, qpVars, enVars, thVars, gbVars, rsVars, spVars, wbVars, fdVars, vwVars>>

StNext == SPut \/ SDelete \/ SPutLocation

SpecStore == StInit /\ [][StNext]_vars

NotAttempted == [loc |-> NoLoc, date |-> ZeroTime, err |-> FALSE]

Range(f) == {f[i] : i \in DOMAIN f}

\* C1: after Delete(id, t) of a live offer holding bytes b, Get(id) is nil,
\* id is listed by ListDeletedIds and some record d of ListDeletedOffers(id)
\* has GetDeleted(d.Id) = b.
C1_DeleteMoves ==
    (sLast.op = "delete" /\ ~sLast.pre.nil) =>
        /\ StoreGet(sdb, sLast.id).nil
        /\ sLast.id \in Range(StoreListDeletedIds(sdb))
        /\ \E d \in Range(StoreListDeletedOffers(sdb, sLast.id)) :
              StoreGetDeleted(sdb, d.Id) = sLast.pre

\* the second deletion of an id, republished with other bytes in between
C1_Witness ==
    /\ sLast.op = "delete"
    /\ sLast.pre = Bytes(<<2, 3>>)
    /\ Len(StoreListDeletedOffers(sdb, sLast.id)) = 2
    /\ StoreGetDeleted(sdb, StoreListDeletedOffers(sdb, sLast.id)[1].Id) = Bytes(<<>>)

\* C2: after Put(id, b), GetLocation(id) is (nil, zero date), whatever
\* location, resolved or unresolvable, was cached for id before.
C2_PutInvalidates ==
    sLast.op = "put" => StoreGetLocation(sdb, sLast.id) = NotAttempted

C2_Witness ==
    /\ sLast.op = "put"
    /\ sLast.hadLoc = "resolved"
    /\ \E id \in StoreIds : LocState(sdb, id) = "empty"

\* C3 as stated: after PutLocation(id, nil, t) of a live offer with t not
\* zero, GetLocation(id) is (nil, t).
C3_Original ==
    (sLast.op = "putloc" /\ ~sLast.err /\ sLast.loc.nil /\ ~IsZero(sLast.date)) =>
        StoreGetLocation(sdb, sLast.id) =
            [loc |-> NoLoc, date |-> sLast.date, err |-> FALSE]

\* C3 amended: after PutLocation(id, nil, t) of a live offer, for any t,
\* GetLocation(id) is (nil, time.Unix(1, 0)): a fixed date that is not zero,
\* t itself is not stored; and a live offer with no PutLocation since its
\* last Put has GetLocation(id) = (nil, zero date).
C3_Amended ==
    /\ (sLast.op = "putloc" /\ ~sLast.err /\ sLast.loc.nil) =>
          /\ StoreGetLocation(sdb, sLast.id) =
                [loc |-> NoLoc, date |-> TimeUnix(1), err |-> FALSE]
          /\ ~IsZero(StoreGetLocation(sdb, sLast.id).date)
    /\ \A id \in StoreIds :
          (StoreHas(sdb, id) /\ id \notin sLocSet) =>
              StoreGetLocation(sdb, id) = NotAttempted

C3_Witness ==
    /\ sLast.op = "putloc"
    /\ ~sLast.err
    /\ sLast.loc.nil
    /\ sLast.date = [unix |-> 3, nsec |-> 0]
    /\ sLast.hadLoc = "resolved"
    /\ \E id \in StoreIds : StoreHas(sdb, id) /\ id \notin sLocSet

\* C4: PutLocation(id, loc, t) for an id with no live offer returns an error
\* and leaves the database as it was; GetLocation(id) still reports "not
\* attempted".
C4_PutLocationUnknown ==
    [][\A id \in StoreIds, loc \in StoreLocs, date \in StoreDates :
          ~StoreHas(sdb, id) =>
              /\ StorePutLocation(sdb, id, loc, date).err
              /\ (sLast' = StLast("putloc", id, TRUE, loc, date)) =>
                    /\ sdb' = sdb
                    /\ StoreGetLocation(sdb', id) = NotAttempted]_vars

\* a failed PutLocation on an id that was deleted after having had a location
C4_Witness ==
    /\ sLast.op = "putloc"
    /\ sLast.err
    /\ ~sLast.loc.nil
    /\ sLast.id \in Range(StoreListDeletedIds(sdb))
    /\ \E id \in StoreIds : LocState(sdb, id) = "resolved"

----------------------------------------------------------------------------
(* SpecQueue: QueueMany, FetchMany and DeleteMany on a new IndexQueue *)

QItems == {[Seq |-> 0, Id |-> <<49>>, Op |-> AddOp],
           [Seq |-> 0, Id |-> <<50>>, Op |-> RemoveOp]}

QBatches == UNION {[1..n -> QItems] : n \in 0..MaxBatch}

QuInit ==
    /\ KVIdle
    /\ StIdle
    /\ CrIdle
    /\ GcIdle
    /\ TxIdle
    /\ AgIdle
    /\ QpIdle
    /\ EnIdle
    /\ ThIdle
    /\ GbIdle
    /\ RsIdle
    /\ SpIdle
    /\ WbIdle
    /\ FdIdle
    /\ VwIdle
    /\ IxIdle
    /\ queue = EmptyQueue
    /\ qLog = <<>>
    /\ qDel = 0
    /\ qLast = [op |-> "open", n |-> 0, pre |-> EmptyQueue]

QQueueMany ==
    \E items \in QBatches :
        /\ Len(qLog) + Len(items) <= MaxQueued
        /\ queue' = QueueMany(queue, items)
        /\ qLog' = qLog \o items
        /\ qLast' = [op |-> "queue", n |-> Len(items), pre |-> queue]
        /\ UNCHANGED <<qDel, kvVars, stVars, crVars, ixVars, gcVars, txVars, agVars, qpVars, enVars, thVars, gbVars, rsVars, spVars, wbVars, fdVars, vwVars>>

\* FetchMany runs in a read-only View
QFetchMany ==
    \E count \in 0..MaxCount :
        /\ qLast' = [op |-> "fetch", n |-> count, pre |-> queue]
        /\ UNCHANGED <<queue, qLog, qDel, kvVars, stVars, crVars, ixVars, gcVars, txVars, agVars, qpVars, enVars, thVars, gbVars, rsVars, spVars, wbVars, fdVars, vwVars>>

QDeleteMany ==
    \E count \in 0..MaxCount :
        /\ queue' = DeleteMany(queue, count)
        /\ qDel' = qDel + Min(count, QueueSize(queue))
        /\ qLast' = [op |-> "delete", n |-> count, pre |-> queue]
        /\ UNCHANGED <<qLog, kvVars, stVars, crVars, ixVars, gcVars, txVars, agVars, qpVars, enVars, thVars, gbVars, rsVars, spVars, wbVars, fdVars, vwVars>>

QuNext == QQueueMany \/ QFetchMany \/ QDeleteMany

SpecQueue == QuInit /\ [][QuNext]_vars

\* the entries queued and not deleted, oldest first, as FetchMany reports them
QPending ==
    [i \in 1..(Len(qLog) - qDel) |->
        [Seq |-> qDel + i, Id |-> qLog[qDel + i].Id, Op |-> qLog[qDel + i].Op]]

\* C7: after any interleaving of QueueMany, FetchMany and DeleteMany,
\* FetchMany(k) is the min(k, size) oldest entries not deleted, in the order
\* they were queued, id and op unchanged; a FetchMany call leaves the queue
\* as it was.
C7_FetchOldest ==
    /\ \A k \in 0..(MaxCount + 1) :
          FetchMany(queue, k) = SubSeq(QPending, 1, Min(k, QueueSize(queue)))
    /\ qLast.op = "fetch" => queue = qLast.pre

\* entries queued after a complete drain, in two batches, the first partly deleted
C7_Witness ==
    /\ qDel >= 3
    /\ Len(qLog) - qDel >= 1
    /\ qLast.op = "fetch"
    /\ qLast.n >= 1
    /\ QueueSize(queue) = Len(qLog) - qDel

\* C8: QueueMany(items) adds len(items) to Size(); DeleteMany(n) removes the
\* min(n, Size()) oldest entries, Size() becoming max(0, Size() - n); on an
\* empty queue FetchMany returns nothing and DeleteMany changes nothing.
C8_SizeAccounting ==
    /\ qLast.op = "queue" => QueueSize(queue) = QueueSize(qLast.pre) + qLast.n
    /\ qLast.op = "delete" =>
          /\ QueueSize(queue) = Max(0, QueueSize(qLast.pre) - qLast.n)
          /\ FetchMany(queue, MaxQueued) =
                LET all == FetchMany(qLast.pre, MaxQueued)
                IN  SubSeq(all, Min(qLast.n, Len(all)) + 1, Len(all))
          /\ QueueSize(qLast.pre) = 0 => queue = qLast.pre
    /\ QueueSize(queue) = 0 => \A k \in 0..MaxCount : FetchMany(queue, k) = <<>>

\* a DeleteMany asking for more than the queue holds, on a queue that was
\* drained and filled again before
C8_Witness ==
    /\ qLast.op = "delete"
    /\ qLast.n > QueueSize(qLast.pre)
    /\ QueueSize(qLast.pre) >= 1
    /\ qDel > QueueSize(qLast.pre)
    /\ QueueSize(queue) = 0

----------------------------------------------------------------------------
(* SpecCrawl: one call of crawl: the listing goroutine, the fetching       *)
(* goroutine and crawl itself, synchronised by the unbuffered channels     *)
(* idsChan, stopListing, listingDone and crawlingDone.                     *)

CrawlIds == StoreIds \cup {<<99>>}              \* "a", "b", "c"
CrawlData == <<2, 3>>                           \* the document getOffer reads
CrawlNow == [unix |-> 4, nsec |-> 6]            \* time.Now() of the deletion step

\* what searchOffers can answer: up to PageCount ids
Pages == UNION {[1..n -> CrawlIds] : n \in 0..PageCount}

\* the store before the cycle: each id absent, live, or live with a location
SeedKinds == {"absent", "live", "located"}

Seed(db, id, kind) ==
    LET db1 == StorePut(db, id, CrawlData)
    IN  IF kind = "absent" THEN db
        ELSE IF kind = "live" THEN db1
        ELSE StorePutLocation(db1, id, Loc(Paris), [unix |-> 3, nsec |-> 0]).db

SeedStore(f) ==
    Seed(Seed(Seed(OpenNewStore, <<97>>, f[<<97>>]), <<98>>, f[<<98>>]),
         <<99>>, f[<<99>>])

CrInit ==
    /\ KVIdle
    /\ StIdle
    /\ QuIdle
    /\ IxIdle
    /\ GcIdle
    /\ TxIdle
    /\ AgIdle
    /\ QpIdle
    /\ EnIdle
    /\ ThIdle
    /\ GbIdle
    /\ RsIdle
    /\ SpIdle
    /\ WbIdle
    /\ FdIdle
    /\ VwIdle
    /\ \E f \in [CrawlIds -> SeedKinds] :
          /\ cdb = SeedStore(f)
          /\ cHist = [db0 |-> SeedStore(f), listed |-> {}, notfound |-> {}]
    /\ seen = {}
    /\ lister = [pc |-> "search", pending |-> <<>>, pages |-> 0, n |-> 0, err |-> NoErr]
    /\ fetcher = [pc |-> "range", ids |-> <<>>, err |-> NoErr]
    /\ coord = [pc |-> "recvCrawl", crawlingErr |-> NoErr, listingErr |-> NoErr,
                ids |-> <<>>, ret |-> NoErr]
    /\ chans = [idsChan |-> FALSE, stopListing |-> FALSE, crawlingDone |-> FALSE]

\* the ids of a page the callback appends to pending: those not in seen yet,
\* each id entering seen as soon as it is met
RECURSIVE Unseen(_, _, _)
Unseen(ids, i, s) ==
    IF i > Len(ids) THEN <<>>
    ELSE IF ids[i] \in s THEN Unseen(ids, i + 1, s)
    ELSE <<ids[i]>> \o Unseen(ids, i + 1, s \cup {ids[i]})

\* enumerateOffers: searchOffers fails
LSearchFails ==
    /\ lister.pc = "search"
    /\ lister' = [lister EXCEPT !.pc = "close", !.err = "search"]
    /\ UNCHANGED <<cdb, seen, fetcher, coord, chans, cHist, kvVars, stVars, quVars, ixVars, gcVars, txVars, agVars, qpVars, enVars, thVars, gbVars, rsVars, spVars, wbVars, fdVars, vwVars>>

\* enumerateOffers: searchOffers answers a page; the callback's loop over it
LSearch ==
    /\ lister.pc = "search"
    /\ \E ids \in Pages :
          /\ lister.pages + 1 >= MaxPages => Len(ids) < PageCount
          /\ lister' = [lister EXCEPT !.pc = "select",
                                      !.pending = @ \o Unseen(ids, 1, seen),
                                      !.pages = @ + 1,
                                      !.n = Len(ids)]
          /\ seen' = seen \cup Range(ids)
          /\ cHist' = [cHist EXCEPT !.listed = @ \cup Range(ids)]
    /\ UNCHANGED <<cdb, fetcher, coord, chans, kvVars, stVars, quVars, ixVars, gcVars, txVars, agVars, qpVars, enVars, thVars, gbVars, rsVars, spVars, wbVars, fdVars, vwVars>>

\* after the callback returned nil: if len(ids) < count { break }
AfterCallback(n) == IF n < PageCount THEN "close" ELSE "search"

\* the callback's select, case <-stopListing
LSelectStop ==
    /\ lister.pc = "select"
    /\ chans.stopListing
    /\ lister' = [lister EXCEPT !.pc = "close", !.err = "interrupted"]
    /\ UNCHANGED <<cdb, seen, fetcher, coord, chans, cHist, kvVars, stVars, quVars, ixVars, gcVars, txVars, agVars, qpVars, enVars, thVars, gbVars, rsVars, spVars, wbVars, fdVars, vwVars>>

\* the callback's select, case idsChan <- pending, met by the fetcher's range
LSelectSend ==
    /\ lister.pc = "select"
    /\ fetcher.pc = "recv"
    /\ fetcher' = [fetcher EXCEPT !.pc = "crawl", !.ids = lister.pending]
    /\ lister' = [lister EXCEPT !.pc = AfterCallback(lister.n), !.pending = <<>>]
    /\ UNCHANGED <<cdb, seen, coord, chans, cHist, kvVars, stVars, quVars, ixVars, gcVars, txVars, agVars, qpVars, enVars, thVars, gbVars, rsVars, spVars, wbVars, fdVars, vwVars>>

\* the callback's select, default: no other case can proceed
LSelectDefault ==
    /\ lister.pc = "select"
    /\ ~chans.stopListing
    /\ fetcher.pc # "recv"
    /\ lister' = [lister EXCEPT !.pc = AfterCallback(lister.n)]
    /\ UNCHANGED <<cdb, seen, fetcher, coord, chans, cHist, kvVars, stVars, quVars, ixVars, gcVars, txVars, agVars, qpVars, enVars, thVars, gbVars, rsVars, spVars, wbVars, fdVars, vwVars>>

\* close(idsChan)
LClose ==
    /\ lister.pc = "close"
    /\ chans' = [chans EXCEPT !.idsChan = TRUE]
    /\ lister' = [lister EXCEPT !.pc = "send"]
    /\ UNCHANGED <<cdb, seen, fetcher, coord, cHist, kvVars, stVars, quVars, ixVars, gcVars, txVars, agVars, qpVars, enVars, thVars, gbVars, rsVars, spVars, wbVars, fdVars, vwVars>>

\* a range over idsChan that returns without close(crawlingDone)
AfterRangeNoClose(closed) == IF closed THEN "done" ELSE "recv"

\* for ids := range idsChan { ... }; close(crawlingDone)
AfterRange(closed) == IF closed THEN "close" ELSE "recv"

\* for ids := range idsChan: the fetcher starts waiting, or finds the channel closed
FRange ==
    /\ fetcher.pc = "range"
    /\ fetcher' = [fetcher EXCEPT !.pc = AfterRange(chans.idsChan)]
    /\ UNCHANGED <<cdb, seen, lister, coord, chans, cHist, kvVars, stVars, quVars, ixVars, gcVars, txVars, agVars, qpVars, enVars, thVars, gbVars, rsVars, spVars, wbVars, fdVars, vwVars>>

\* the waiting fetcher is woken by close(idsChan)
FRangeClosed ==
    /\ fetcher.pc = "recv"
    /\ chans.idsChan
    /\ fetcher' = [fetcher EXCEPT !.pc = AfterRange(TRUE)]
    /\ UNCHANGED <<cdb, seen, lister, coord, chans, cHist, kvVars, stVars, quVars, ixVars, gcVars, txVars, agVars, qpVars, enVars, thVars, gbVars, rsVars, spVars, wbVars, fdVars, vwVars>>

\* crawlOffers that fetches whatever the store holds
AlreadyStoredNever(db, id) == StoreHas(db, id) /\ FALSE

\* ok, err := store.Has(id); if ok { continue }
AlreadyStored(db, id) == StoreHas(db, id)

\* crawlOffers, one turn of its loop; getOffer answers a document, 404 or fails
FCrawlOne ==
    /\ fetcher.pc = "crawl"
    /\ fetcher.ids # <<>>
    /\ LET id == Head(fetcher.ids)
       IN  \/ /\ AlreadyStored(cdb, id)
              /\ fetcher' = [fetcher EXCEPT !.ids = Tail(@)]
              /\ cdb' = cdb
              /\ cHist' = cHist
           \/ /\ ~AlreadyStored(cdb, id)
              /\ \E outcome \in {"ok", "notfound", "error"} :
                    /\ fetcher' = IF outcome = "error"
                                  THEN [fetcher EXCEPT !.pc = "sendErr", !.err = "fetch"]
                                  ELSE [fetcher EXCEPT !.ids = Tail(@)]
                    /\ cdb' = IF outcome = "ok" THEN StorePut(cdb, id, CrawlData)
                              ELSE cdb
                    /\ cHist' = IF outcome = "notfound"
                                THEN [cHist EXCEPT !.notfound = @ \cup {id}]
                                ELSE cHist
    /\ UNCHANGED <<seen, lister, coord, chans, kvVars, stVars, quVars, ixVars, gcVars, txVars, agVars, qpVars, enVars, thVars, gbVars, rsVars, spVars, wbVars, fdVars, vwVars>>

\* crawlOffers returned without error: back to the range
FCrawlDone ==
    /\ fetcher.pc = "crawl"
    /\ fetcher.ids = <<>>
    /\ fetcher' = [fetcher EXCEPT !.pc = "range"]
    /\ UNCHANGED <<cdb, seen, lister, coord, chans, cHist, kvVars, stVars, quVars, ixVars, gcVars, txVars, agVars, qpVars, enVars, thVars, gbVars, rsVars, spVars, wbVars, fdVars, vwVars>>

\* crawlingDone <- err, met by crawl's crawlingErr := <-crawlingDone; break
FSendErr ==
    /\ fetcher.pc = "sendErr"
    /\ coord.pc = "recvCrawl"
    /\ coord' = [coord EXCEPT !.pc = "closeStop", !.crawlingErr = fetcher.err]
    /\ fetcher' = [fetcher EXCEPT !.pc = "close"]
    /\ UNCHANGED <<cdb, seen, lister, chans, cHist, kvVars, stVars, quVars, ixVars, gcVars, txVars, agVars, qpVars, enVars, thVars, gbVars, rsVars, spVars, wbVars, fdVars, vwVars>>

\* close(crawlingDone), the fetcher's last statement
FClose ==
    /\ fetcher.pc = "close"
    /\ chans' = [chans EXCEPT !.crawlingDone = TRUE]
    /\ fetcher' = [fetcher EXCEPT !.pc = "done"]
    /\ UNCHANGED <<cdb, seen, lister, coord, cHist, kvVars, stVars, quVars, ixVars, gcVars, txVars, agVars, qpVars, enVars, thVars, gbVars, rsVars, spVars, wbVars, fdVars, vwVars>>

\* crawlingErr := <-crawlingDone on the closed channel
CRecvClosed ==
    /\ coord.pc = "recvCrawl"
    /\ chans.crawlingDone
    /\ coord' = [coord EXCEPT !.pc = "closeStop", !.crawlingErr = NoErr]
    /\ UNCHANGED <<cdb, seen, lister, fetcher, chans, cHist, kvVars, stVars, quVars, ixVars, gcVars, txVars, agVars, qpVars, enVars, thVars, gbVars, rsVars, spVars, wbVars, fdVars, vwVars>>

\* close(stopListing)
CCloseStop ==
    /\ coord.pc = "closeStop"
    /\ chans' = [chans EXCEPT !.stopListing = TRUE]
    /\ coord' = [coord EXCEPT !.pc = "recvList"]
    /\ UNCHANGED <<cdb, seen, lister, fetcher, cHist, kvVars, stVars, quVars, ixVars, gcVars, txVars, agVars, qpVars, enVars, thVars, gbVars, rsVars, spVars, wbVars, fdVars, vwVars>>

\* listingErr := <-listingDone, met by the lister's listingDone <- err
CRecvList ==
    /\ coord.pc = "recvList"
    /\ lister.pc = "send"
    /\ coord' = [coord EXCEPT !.pc = "check", !.listingErr = lister.err]
    /\ lister' = [lister EXCEPT !.pc = "done"]
    /\ UNCHANGED <<cdb, seen, fetcher, chans, cHist, kvVars, stVars, quVars, ixVars, gcVars, txVars, agVars, qpVars, enVars, thVars, gbVars, rsVars, spVars, wbVars, fdVars, vwVars>>

\* crawl goes on to the deletion step whatever the two goroutines reported
CrawlFailedNever(listingErr, crawlingErr) == NoErr

\* crawl checks listingErr only
CrawlFailedListingOnly(listingErr, crawlingErr) == listingErr

\* if listingErr != nil { return listingErr }; if crawlingErr != nil { return crawlingErr }
CrawlFailed(listingErr, crawlingErr) ==
    IF listingErr # NoErr THEN listingErr
    ELSE IF crawlingErr # NoErr THEN crawlingErr
    ELSE NoErr

\* the error checks, then ids, err := store.List()
CCheck ==
    /\ coord.pc = "check"
    /\ LET err == CrawlFailed(coord.listingErr, coord.crawlingErr)
       IN  coord' = IF err # NoErr
                    THEN [coord EXCEPT !.pc = "done", !.ret = err]
                    ELSE [coord EXCEPT !.pc = "delete", !.ids = StoreList(cdb)]
    /\ UNCHANGED <<cdb, seen, lister, fetcher, chans, cHist, kvVars, stVars, quVars, ixVars, gcVars, txVars, agVars, qpVars, enVars, thVars, gbVars, rsVars, spVars, wbVars, fdVars, vwVars>>

\* the deletion step deletes every id of the store
DeleteUnseenAll(db, seenIds, id, now) == StoreDelete(db, id, now)

\* if !seen[id] { store.Delete(id, now) }
DeleteUnseen(db, seenIds, id, now) ==
    IF id \notin seenIds THEN StoreDelete(db, id, now) ELSE db

\* one turn of the deletion loop
CDeleteOne ==
    /\ coord.pc = "delete"
    /\ coord.ids # <<>>
    /\ cdb' = DeleteUnseen(cdb, seen, Head(coord.ids), CrawlNow)
    /\ coord' = [coord EXCEPT !.ids = Tail(@)]
    /\ UNCHANGED <<seen, lister, fetcher, chans, cHist, kvVars, stVars, quVars, ixVars, gcVars, txVars, agVars, qpVars, enVars, thVars, gbVars, rsVars, spVars, wbVars, fdVars, vwVars>>

\* the deletion loop is over: return nil
CReturn ==
    /\ coord.pc = "delete"
    /\ coord.ids = <<>>
    /\ coord' = [coord EXCEPT !.pc = "done", !.ret = NoErr]
    /\ UNCHANGED <<cdb, seen, lister, fetcher, chans, cHist, kvVars, stVars, quVars, ixVars, gcVars, txVars, agVars, qpVars, enVars, thVars, gbVars, rsVars, spVars, wbVars, fdVars, vwVars>>

CrNext ==
    \/ LSearchFails \/ LSearch \/ LSelectStop \/ LSelectSend \/ LSelectDefault
    \/ LClose
    \/ FRange \/ FRangeClosed \/ FCrawlOne \/ FCrawlDone \/ FSendErr \/ FClose
    \/ CRecvClosed \/ CCloseStop \/ CRecvList \/ CCheck \/ CDeleteOne \/ CReturn

SpecCrawl == CrInit /\ [][CrNext]_vars

\* C9: the deletion step starts only after the lister and the fetcher have
\* terminated; seen is written by the lister only, and is not written once
\* crawl has started reading it.
C9_DeleteAfterTasks ==
    [][/\ coord'.pc = "delete" => lister'.pc = "done" /\ fetcher'.pc = "done"
       /\ seen' # seen =>
             /\ lister.pc = "search"
             /\ lister' # lister
             /\ fetcher' = fetcher
             /\ coord' = coord
             /\ coord.pc \in {"recvCrawl", "closeStop", "recvList"}]_vars

\* crawl is in its deletion loop, about to read seen for an id of the store,
\* after a cycle in which both goroutines worked
C9_Witness ==
    /\ coord.pc = "delete"
    /\ coord.ids # <<>>
    /\ seen # {}
    /\ lister.pages = MaxPages
    /\ \E id \in CrawlIds : StoreHas(cdb, id) /\ ~StoreHas(cHist.db0, id)

CrawlDoneOk == coord.pc = "done" /\ coord.ret = NoErr /\ cHist.db0 # EmptyDB

\* C10: after a crawl that returns nil, every id that was live in the store
\* and that the remote did not list is soft-deleted: absent from List, in
\* ListDeletedIds, its location cleared; and no listed id was deleted.
C10_UnlistedDeleted ==
    CrawlDoneOk =>
        \A id \in CrawlIds :
            /\ (StoreHas(cHist.db0, id) /\ id \notin cHist.listed) =>
                  /\ id \notin Range(StoreList(cdb))
                  /\ id \in Range(StoreListDeletedIds(cdb))
                  /\ StoreGetLocation(cdb, id) = NotAttempted
            /\ id \in cHist.listed =>
                  /\ StoreListDeletedOffers(cdb, id) = StoreListDeletedOffers(cHist.db0, id)
                  /\ id \notin Range(StoreListDeletedIds(cdb))
                  /\ StoreHas(cHist.db0, id) =>
                        /\ StoreGet(cdb, id) = StoreGet(cHist.db0, id)
                        /\ StoreGetLocation(cdb, id) = StoreGetLocation(cHist.db0, id)

\* a crawl returned nil: one located id was not listed, another live id was
\* listed, and a third was fetched
C10_Witness ==
    /\ CrawlDoneOk
    /\ \E id \in CrawlIds :
          /\ ~StoreGetLocation(cHist.db0, id).loc.nil
          /\ id \notin cHist.listed
          /\ id \in Range(StoreListDeletedIds(cdb))
    /\ \E id \in CrawlIds : StoreHas(cHist.db0, id) /\ id \in cHist.listed
    /\ \E id \in CrawlIds : ~StoreHas(cHist.db0, id) /\ StoreHas(cdb, id)

\* C11 (as stated): when crawl returns nil, every id the remote listed is live
\* in the store unless getOffer answered 404 for it.
C11_ListedAllFetched ==
    CrawlDoneOk =>
        \A id \in cHist.listed : StoreHas(cdb, id) \/ id \in cHist.notfound

\* the lister closes idsChan while ids it listed are still in pending
C11_PendingDropped ==
    /\ lister.pc \in {"send", "done"}
    /\ lister.err = NoErr
    /\ lister.pending # <<>>

----------------------------------------------------------------------------
(* SpecCrawlLive: SpecCrawl with each goroutine scheduled as long as it    *)
(* can take a step.                                                        *)

ListerNext ==
    \/ LSearchFails \/ LSearch \/ LSelectStop \/ LSelectSend \/ LSelectDefault
    \/ LClose

FetcherNext ==
    \/ FRange \/ FRangeClosed \/ FCrawlOne \/ FCrawlDone \/ FSendErr \/ FClose

CoordNext ==
    \/ CRecvClosed \/ CCloseStop \/ CRecvList \/ CCheck \/ CDeleteOne \/ CReturn

\* CrInit with one store: "a" live with a location, "b" live, "c" absent
CrLiveInit ==
    /\ CrInit
    /\ cdb = SeedStore((<<97>> :> "located") @@ (<<98>> :> "live") @@ (<<99>> :> "absent"))

\* WF_vars(FCrawlOne), with ENABLED written as the guard of the action
FairCrawlOne ==
    \/ []<>(~(fetcher.pc = "crawl" /\ fetcher.ids # <<>>))
    \/ []<><<FCrawlOne>>_fetcher

\* WF_vars(CCheck \/ CDeleteOne), with ENABLED written as the guards
FairCoordStore ==
    \/ []<>(~(coord.pc = "check" \/ (coord.pc = "delete" /\ coord.ids # <<>>)))
    \/ []<><<CCheck \/ CDeleteOne>>_coord

SpecCrawlLive ==
    /\ CrLiveInit
    /\ [][CrNext]_vars
    /\ WF_vars(ListerNext)
    /\ WF_vars(FRange \/ FRangeClosed \/ FCrawlDone \/ FSendErr \/ FClose)
    /\ FairCrawlOne
    /\ WF_vars(CRecvClosed \/ CCloseStop \/ CRecvList \/ CReturn)
    /\ FairCoordStore

CrawlReturned ==
    /\ coord.pc = "done"
    /\ lister.pc = "done"
    /\ fetcher.pc = "done"

\* C12: crawl terminates whatever the outcomes of the two goroutines: the
\* lister and the fetcher exit and crawl returns, none stays blocked on a
\* channel.
C12_CrawlTerminates == <>[]CrawlReturned

\* all three are over after both goroutines failed
C12_Witness ==
    /\ CrawlReturned
    /\ lister.err = "interrupted"
    /\ fetcher.err = "fetch"
    /\ coord.ret # NoErr
    /\ cHist.db0 # EmptyDB

\* C13: if the lister or the fetcher fails, crawl returns an error and does
\* no soft deletion: every id live at the start is still live with the same
\* bytes, and the deleted journal is as it was.
C13_NoDeletionOnFailure ==
    (cHist.db0 # EmptyDB /\ (lister.err # NoErr \/ fetcher.err # NoErr)) =>
        /\ coord.pc = "done" => coord.ret # NoErr
        /\ coord.pc # "delete"
        /\ StoreListDeletedIds(cdb) = StoreListDeletedIds(cHist.db0)
        /\ \A id \in CrawlIds :
              /\ StoreListDeletedOffers(cdb, id) = StoreListDeletedOffers(cHist.db0, id)
              /\ StoreHas(cHist.db0, id) =>
                    /\ StoreGet(cdb, id) = StoreGet(cHist.db0, id)
                    /\ StoreGetLocation(cdb, id) = StoreGetLocation(cHist.db0, id)

\* crawl returned the fetcher's error although the lister had finished its
\* enumeration without error, with an offer stored before the failure and a
\* live id that was not listed
C13_Witness ==
    /\ coord.pc = "done"
    /\ coord.ret = "fetch"
    /\ lister.err = NoErr
    /\ \E id \in CrawlIds : ~StoreHas(cHist.db0, id) /\ StoreHas(cdb, id)
    /\ \E id \in CrawlIds : StoreHas(cHist.db0, id) /\ id \notin seen

----------------------------------------------------------------------------
(* SpecIndexer: the Indexer of webindexer.go: its dispatch goroutine, the  *)
(* callers of Sync and Close, and the store it reads.                      *)

\* an offer document of the store: a first byte telling whether it decodes
\* (ffjson.Unmarshal and convertOffer succeed), then the id it carries
GoodOffer(id) == <<1>> \o id
BadOffer(id) == <<0>> \o id

\* getStoreOffer: [nil, id, err]; a nil offer without error when the id is
\* not in the store
getStoreOffer(db, id) ==
    LET data == StoreGet(db, id)
    IN  IF data.nil THEN [nil |-> TRUE, id |-> <<>>, err |-> FALSE]
        ELSE IF Len(data.b) = 0 \/ data.b[1] # 1
        THEN [nil |-> TRUE, id |-> <<>>, err |-> TRUE]
        ELSE [nil |-> FALSE, id |-> Tail(data.b), err |-> FALSE]

\* listIndexIds: the document ids in the order of the index
listIndexIds(index) == SortKeys(index)

\* the position an element takes in a sorted list: after every element that
\* is not greater than it
RECURSIVE InsertSorted(_, _)
InsertSorted(s, x) ==
    IF s = <<>> THEN <<x>>
    ELSE IF BytesLess(x, Head(s)) THEN <<x>> \o s
    ELSE <<Head(s)>> \o InsertSorted(Tail(s), x)

RECURSIVE SortedStrings(_)
SortedStrings(s) ==
    IF s = <<>> THEN <<>>
    ELSE InsertSorted(SortedStrings(SubSeq(s, 1, Len(s) - 1)), s[Len(s)])

\* diffIds compares the lists as it received them
SortStringsSkipped(s) == s

\* sort.Strings: the list in increasing order, duplicates kept
SortStrings(s) == SortedStrings(s)

\* sort.Search over [i, j): the smallest index whose element is not below x,
\* found by bisection, indexes counted from 0
RECURSIVE SearchLoop(_, _, _, _)
SearchLoop(a, x, i, j) ==
    IF i >= j THEN i
    ELSE LET h == (i + j) \div 2
         IN  IF BytesLess(a[h + 1], x)
             THEN SearchLoop(a, x, h + 1, j)
             ELSE SearchLoop(a, x, i, h)

\* sort.SearchStrings
SearchStrings(a, x) == SearchLoop(a, x, 0, Len(a))

\* the ids of from for which the search in to ends past the list or on
\* another id
Missing(from, to) ==
    SelectSeq(from, LAMBDA id :
        LET i == SearchStrings(to, id)
        IN  i >= Len(to) \/ to[i + 1] # id)

\* diffIds: both lists sorted, then [added, removed], the ids of from that
\* are not in to and the ids of to that are not in from
diffIds(from, to) ==
    LET f == SortStrings(from)
        t == SortStrings(to)
    IN  [added |-> Missing(f, t), removed |-> Missing(t, f)]

Ops(ids, op) == [i \in 1..Len(ids) |-> [Seq |-> 0, Id |-> ids[i], Op |-> op]]

\* the operations resetQueue queues for a stored and an indexed list: the
\* removals then the additions
resetOps(stored, indexed) ==
    LET d == diffIds(stored, indexed)
    IN  Ops(d.removed, RemoveOp) \o Ops(d.added, AddOp)

\* resetQueue: the removals then the additions replace the whole queue
resetQueue(db, index, q) ==
    QueueMany(DeleteMany(q, QueueSize(q)),
              resetOps(StoreList(db), listIndexIds(index)))

\* a send that adds a signal whatever the channel holds
SignalSendUnbounded(n) == n + 1

\* select { case ch <- true: default: } on a channel of capacity 1
SignalSend(n) == IF n < 1 THEN n + 1 ELSE n

\* the dispatch loop goes on after it closed done
AfterStopLoop == "select"

\* case done := <-idx.stop: close(done); return
AfterStop == "exited"

\* indexOne deletes the head of the queue although the operation failed
AfterFailureDrop(q) == DeleteMany(q, 1)

\* indexOne returns the error before queue.DeleteMany(1)
AfterFailure(q) == q

IxSeed(db, id, kind) ==
    IF kind = "absent" THEN db
    ELSE IF kind = "good" THEN StorePut(db, id, GoodOffer(id))
    ELSE StorePut(db, id, BadOffer(id))

IxSeedStore(f) ==
    IxSeed(IxSeed(IxSeed(OpenNewStore, <<97>>, f[<<97>>]), <<98>>, f[<<98>>]),
           <<99>>, f[<<99>>])

IxHist0 ==
    [syncs |-> 0, pending |-> 0, last |-> "none", item |-> <<>>,
     fetched |-> <<>>, applied |-> 0, changes |-> 0]

\* queues left by earlier runs: new, holding operations, drained
IxQueues ==
    {EmptyQueue,
     DeleteMany(QueueMany(EmptyQueue, Ops(<<<<98>>>>, RemoveOp) \o Ops(<<<<99>>>>, AddOp)), 1)}

\* the stores the Indexer is started on: all three offers decodable, the
\* first or the second undecodable, one offer only
IxSeeds ==
    {(<<97>> :> "good") @@ (<<98>> :> "good") @@ (<<99>> :> "good"),
     (<<97>> :> "bad") @@ (<<98>> :> "good") @@ (<<99>> :> "good"),
     (<<97>> :> "good") @@ (<<98>> :> "bad") @@ (<<99>> :> "absent"),
     (<<97>> :> "absent") @@ (<<98>> :> "good") @@ (<<99>> :> "absent")}

\* the indexes left by earlier runs
IxIndexes == {{}, {<<97>>}, {<<98>>, <<99>>}}

\* NewIndexer on a store, an index and a queue left by earlier runs
IxInit ==
    /\ KVIdle
    /\ StIdle
    /\ QuIdle
    /\ CrIdle
    /\ GcIdle
    /\ TxIdle
    /\ AgIdle
    /\ QpIdle
    /\ EnIdle
    /\ ThIdle
    /\ GbIdle
    /\ RsIdle
    /\ SpIdle
    /\ WbIdle
    /\ FdIdle
    /\ VwIdle
    /\ \E f \in IxSeeds : ixStore = IxSeedStore(f)
    /\ ixIndex \in IxIndexes
    /\ ixQueue \in IxQueues
    /\ ixChan = [reset |-> 0, work |-> 0, done |-> FALSE]
    /\ ixWorker = [pc |-> "select", batch |-> <<>>]
    /\ ixCloser = [pc |-> "idle"]
    /\ ixHist = IxHist0

IxOthers == <<kvVars, stVars, quVars, crVars, gcVars, txVars, agVars, qpVars, enVars, thVars, gbVars, rsVars, spVars, wbVars, fdVars, vwVars>>

\* Indexer.Sync
IxSync ==
    /\ ixHist.syncs < MaxSync
    /\ ixChan' = [ixChan EXCEPT !.reset = SignalSend(@)]
    /\ ixHist' = [ixHist EXCEPT !.syncs = @ + 1, !.pending = @ + 1]
    /\ UNCHANGED <<ixStore, ixIndex, ixQueue, ixWorker, ixCloser, IxOthers>>

\* dispatch: case <-idx.reset
WRecvReset ==
    /\ ixWorker.pc = "select"
    /\ ixChan.reset > 0
    /\ ixChan' = [ixChan EXCEPT !.reset = @ - 1]
    /\ ixWorker' = [ixWorker EXCEPT !.pc = "reset"]
    /\ ixHist' = [ixHist EXCEPT !.pending = 0]
    /\ UNCHANGED <<ixStore, ixIndex, ixQueue, ixCloser, IxOthers>>

\* the crawler changes the store while the Indexer runs
IxStoreChange ==
    /\ ixHist.changes < MaxStoreOps
    /\ \E id \in CrawlIds :
          \/ ixStore' = StoreDelete(ixStore, id, CrawlNow)
          \/ /\ ~StoreHas(ixStore, id)
             /\ ixStore' = StorePut(ixStore, id, GoodOffer(id))
    /\ ixStore' # ixStore
    /\ ixHist' = [ixHist EXCEPT !.changes = @ + 1]
    /\ UNCHANGED <<ixIndex, ixQueue, ixChan, ixWorker, ixCloser, IxOthers>>

\* resetQueue, then signalWork; or resetQueue fails before it changed the queue
WResetStep(fail) ==
    /\ ixWorker.pc = "reset"
    /\ IF fail
       THEN UNCHANGED <<ixQueue, ixChan, ixHist>>
       ELSE /\ ixQueue' = resetQueue(ixStore, ixIndex, ixQueue)
            /\ ixChan' = [ixChan EXCEPT !.work = SignalSend(@)]
            /\ ixHist' = [ixHist EXCEPT !.last = "none"]
    /\ ixWorker' = [ixWorker EXCEPT !.pc = "select"]
    /\ UNCHANGED <<ixStore, ixIndex, ixCloser, IxOthers>>

WReset == \E fail \in BOOLEAN : WResetStep(fail)

\* dispatch: case <-idx.work
WRecvWork ==
    /\ ixWorker.pc = "select"
    /\ ixChan.work > 0
    /\ ixChan' = [ixChan EXCEPT !.work = @ - 1]
    /\ ixWorker' = [ixWorker EXCEPT !.pc = "work"]
    /\ UNCHANGED <<ixStore, ixIndex, ixQueue, ixCloser, ixHist, IxOthers>>

\* indexSome never signals work again
BatchFullNever(n) == FALSE

\* if len(queued) >= count { idx.signalWork() }
BatchFull(n) == n >= BatchCount

\* indexSome: FetchMany(count), signalWork when the batch is full
WIndexSome ==
    /\ ixWorker.pc = "work"
    /\ LET queued == FetchMany(ixQueue, BatchCount)
       IN  /\ ixChan' = IF BatchFull(Len(queued))
                        THEN [ixChan EXCEPT !.work = SignalSend(@)]
                        ELSE ixChan
           /\ ixWorker' = [ixWorker EXCEPT !.pc = "index", !.batch = queued]
           /\ ixHist' = [ixHist EXCEPT !.last = "none",
                                       !.fetched = FetchMany(ixQueue, QueueSize(ixQueue)),
                                       !.applied = 0]
    /\ UNCHANGED <<ixStore, ixIndex, ixQueue, ixCloser, IxOthers>>

\* one turn of the loop of indexSome: indexOne on the next item of the batch;
\* the index operation itself may fail
WIndexOneStep(ioerr) ==
    /\ ixWorker.pc = "index"
    /\ ixWorker.batch # <<>>
    /\ LET q == Head(ixWorker.batch)
           offer == getStoreOffer(ixStore, q.Id)
       IN    LET failed == IF q.Op = AddOp
                           THEN offer.err \/ (~offer.nil /\ ioerr)
                           ELSE ioerr
             IN  IF failed
                 THEN /\ ixQueue' = AfterFailure(ixQueue)
                      /\ ixIndex' = ixIndex
                      /\ ixWorker' = [ixWorker EXCEPT !.pc = "select", !.batch = <<>>]
                      /\ ixHist' = [ixHist EXCEPT !.last = "fail", !.item = q]
                 ELSE /\ ixIndex' = IF q.Op = AddOp
                                    THEN IF offer.nil THEN ixIndex
                                         ELSE ixIndex \cup {offer.id}
                                    ELSE ixIndex \ {q.Id}
                      /\ ixQueue' = DeleteMany(ixQueue, 1)
                      /\ ixWorker' = [ixWorker EXCEPT !.batch = Tail(@)]
                      /\ ixHist' = [ixHist EXCEPT !.last = "none", !.applied = @ + 1]
    /\ UNCHANGED <<ixStore, ixChan, ixCloser, IxOthers>>

WIndexOne == \E ioerr \in BOOLEAN : WIndexOneStep(ioerr)

\* indexSome returns after the last item of the batch
WIndexDone ==
    /\ ixWorker.pc = "index"
    /\ ixWorker.batch = <<>>
    /\ ixWorker' = [ixWorker EXCEPT !.pc = "select"]
    /\ UNCHANGED <<ixStore, ixIndex, ixQueue, ixChan, ixCloser, ixHist, IxOthers>>

\* Close: idx.stop <- done, met by dispatch: case done := <-idx.stop
WRecvStop ==
    /\ ixWorker.pc = "select"
    /\ ixCloser.pc = "sending"
    /\ ixWorker' = [ixWorker EXCEPT !.pc = "stopping"]
    /\ ixCloser' = [ixCloser EXCEPT !.pc = "waiting"]
    /\ UNCHANGED <<ixStore, ixIndex, ixQueue, ixChan, ixHist, IxOthers>>

\* close(done); return
WStop ==
    /\ ixWorker.pc = "stopping"
    /\ ixChan' = [ixChan EXCEPT !.done = TRUE]
    /\ ixWorker' = [ixWorker EXCEPT !.pc = AfterStop]
    /\ UNCHANGED <<ixStore, ixIndex, ixQueue, ixCloser, ixHist, IxOthers>>

\* Indexer.Close is called
IxClose ==
    /\ ixCloser.pc = "idle"
    /\ ixCloser' = [ixCloser EXCEPT !.pc = "sending"]
    /\ UNCHANGED <<ixStore, ixIndex, ixQueue, ixChan, ixWorker, ixHist, IxOthers>>

\* Close: <-done, then it returns
IxClosed ==
    /\ ixCloser.pc = "waiting"
    /\ ixChan.done
    /\ ixCloser' = [ixCloser EXCEPT !.pc = "returned"]
    /\ UNCHANGED <<ixStore, ixIndex, ixQueue, ixChan, ixWorker, ixHist, IxOthers>>

IxWorkerNext ==
    \/ WRecvReset \/ WReset \/ WRecvWork \/ WIndexSome \/ WIndexOne \/ WIndexDone
    \/ WRecvStop \/ WStop

IxNext == IxSync \/ IxStoreChange \/ IxWorkerNext \/ IxClose \/ IxClosed

SpecIndexer == IxInit /\ [][IxNext]_vars

IxRunning == ixStore # EmptyDB

\* C14: Sync never blocks and Sync calls are coalesced: at most one reset
\* signal is pending, and it is pending exactly when Sync was called since
\* the worker last took a reset signal, however many times.
C14_SyncCoalesced ==
    IxRunning =>
        /\ ixChan.reset \in {0, 1}
        /\ ixChan.reset = IF ixHist.pending > 0 THEN 1 ELSE 0

\* two Sync calls since the worker last took a reset signal: one signal
C14_Witness ==
    /\ ixHist.pending >= 2
    /\ ixChan.reset = 1
    /\ ixWorker.pc = "select"

\* the queue as FetchMany reports it in full
IxPending(q) == FetchMany(q, QueueSize(q))

\* the operation taken from the batch with Head failed at this step
IxFailedNow == IxRunning /\ ixHist.last = "fail"

\* C16: when applying a queued operation fails, its item is not deleted: it
\* is the first entry of the next FetchMany, and the items of the batch
\* applied before it are the only ones removed from the queue.
C16_FailedItemKept ==
    IxFailedNow =>
        /\ FetchMany(ixQueue, 1) = <<ixHist.item>>
        /\ IxPending(ixQueue) =
              SubSeq(ixHist.fetched, ixHist.applied + 1, Len(ixHist.fetched))

\* the second item of a batch failed after the first was applied, with a
\* third item behind it in the queue
C16_Witness ==
    /\ IxFailedNow
    /\ ixHist.applied = 1
    /\ QueueSize(ixQueue) >= 2

\* C17 (as stated): after a decode error on an offer the item is skipped and
\* the indexer goes on with the items that follow it.
C17_DecodeErrorSkipped ==
    (IxFailedNow /\ getStoreOffer(ixStore, ixHist.item.Id).err) =>
        /\ FetchMany(ixQueue, 1) # <<ixHist.item>>
        /\ ixWorker.pc = "index"

\* the undecodable offer stays at the head of the queue with an item behind
\* it, and the worker is back in its select
C17_Blocked ==
    /\ IxFailedNow
    /\ getStoreOffer(ixStore, ixHist.item.Id).err
    /\ QueueSize(ixQueue) >= 2
    /\ ixWorker.pc = "select"

\* C18: Close returns only after the worker received the stop request; once
\* Close has returned the worker takes no further step on the queue or the
\* index; a reset or work step in progress when Close is called is completed
\* before the stop request is received.
C18_CloseAcknowledged ==
    [][/\ ixCloser'.pc = "returned" =>
             /\ ixWorker'.pc = "exited"
             /\ ixQueue' = ixQueue
             /\ ixIndex' = ixIndex
       /\ (ixCloser.pc = "sending" /\ ixCloser'.pc = "waiting") =>
             /\ ixWorker.pc = "select"
             /\ ixWorker'.pc = "stopping"
       /\ ixWorker.pc \in {"stopping", "exited"} =>
             /\ ixQueue' = ixQueue
             /\ ixIndex' = ixIndex
             /\ ixWorker'.pc \in {"stopping", "exited"}]_vars

\* Close returned; it was called while operations were queued, and a reset
\* signal is left in the channel
C18_Witness ==
    /\ IxRunning
    /\ ixCloser.pc = "returned"
    /\ ixWorker.pc = "exited"
    /\ QueueSize(ixQueue) > 0
    /\ ixChan.reset = 1

----------------------------------------------------------------------------
(* SpecIndexerLive: the Indexer on a store that does not change, with no   *)
(* failing step and no Close, its goroutine scheduled whenever it can run. *)

IxLiveSeeds ==
    {(<<97>> :> "good") @@ (<<98>> :> "good") @@ (<<99>> :> "good"),
     (<<97>> :> "good") @@ (<<98>> :> "absent") @@ (<<99>> :> "good"),
     (<<97>> :> "absent") @@ (<<98>> :> "absent") @@ (<<99>> :> "absent")}

IxLiveInit ==
    /\ KVIdle
    /\ StIdle
    /\ QuIdle
    /\ CrIdle
    /\ GcIdle
    /\ TxIdle
    /\ AgIdle
    /\ QpIdle
    /\ EnIdle
    /\ ThIdle
    /\ GbIdle
    /\ RsIdle
    /\ SpIdle
    /\ WbIdle
    /\ FdIdle
    /\ VwIdle
    /\ \E f \in IxLiveSeeds : ixStore = IxSeedStore(f)
    /\ ixIndex \in IxIndexes \cup {CrawlIds}
    /\ ixQueue \in IxQueues
    /\ ixChan = [reset |-> 0, work |-> 0, done |-> FALSE]
    /\ ixWorker = [pc |-> "select", batch |-> <<>>]
    /\ ixCloser = [pc |-> "idle"]
    /\ ixHist = IxHist0

WResetOk == WResetStep(FALSE)

WIndexOneOk == WIndexOneStep(FALSE)

IxLiveNext ==
    \/ IxSync
    \/ WRecvReset \/ WResetOk \/ WRecvWork \/ WIndexSome \/ WIndexOneOk \/ WIndexDone

\* WF_vars(WResetOk \/ WIndexSome \/ WIndexOneOk), with ENABLED written as
\* the guards of the three steps
FairIxSteps ==
    \/ []<>(~(\/ ixWorker.pc \in {"reset", "work"}
              \/ ixWorker.pc = "index" /\ ixWorker.batch # <<>>))
    \/ []<><<WResetOk \/ WIndexSome \/ WIndexOneOk>>_ixWorker

SpecIndexerLive ==
    /\ IxLiveInit
    /\ [][IxLiveNext]_vars
    /\ WF_vars(WRecvReset \/ WRecvWork \/ WIndexDone)
    /\ FairIxSteps

\* the queue is empty and the index holds the live ids of the store
IxSynced ==
    /\ QueueSize(ixQueue) = 0
    /\ ixIndex = Range(StoreList(ixStore))

\* C15: once Sync was called, with the store unchanged and no failing step,
\* the indexer reaches and keeps a state where the queue is empty and the
\* ids of the index are the live ids of the store.
C15_Converges == [](ixHist.syncs > 0 => <>[]IxSynced)

\* the third of three queued operations was applied in a second batch, and
\* the index now holds the three live ids
C15_Witness ==
    /\ IxSynced
    /\ ixHist.syncs > 0
    /\ Len(ixHist.fetched) = 1
    /\ ixHist.applied = 1
    /\ ixIndex = CrawlIds
    /\ ixWorker.pc = "select"

----------------------------------------------------------------------------
(* SpecCache: calls of the Cache API on a newly opened geocoder cache *)

CacheKeys == {<<114>>, <<110>>}                 \* "r", "n"
CacheBodies == {<<>>, <<2>>, <<1, 80>>}
CacheLocs == {NoLoc, Loc(Paris), Loc(ZeroLocation)}

CcInit ==
    /\ KVIdle
    /\ StIdle
    /\ QuIdle
    /\ CrIdle
    /\ IxIdle
    /\ GcIdle
    /\ TxIdle
    /\ AgIdle
    /\ QpIdle
    /\ EnIdle
    /\ ThIdle
    /\ GbIdle
    /\ RsIdle
    /\ SpIdle
    /\ WbIdle
    /\ FdIdle
    /\ VwIdle

CcPut ==
    \E key \in CacheKeys, data \in CacheBodies, pos \in CacheLocs :
        /\ gcCache' = CachePut(gcCache, key, data, pos)
        /\ gcHist' = [gcHist EXCEPT
                        !.put = (key :> [data |-> data, pos |-> pos]) @@ @,
                        !.last = [op |-> "put", key |-> key]]
        /\ UNCHANGED <<kvVars, stVars, quVars, crVars, ixVars, txVars, agVars, qpVars, enVars, thVars, gbVars, rsVars, spVars, wbVars, fdVars, vwVars>>

CcGetLocation ==
    \E key \in CacheKeys :
        /\ gcHist' = [gcHist EXCEPT
                        !.last = [op |-> "getlocation", key |-> key,
                                  r |-> CacheGetLocation(gcCache, key)]]
        /\ UNCHANGED <<gcCache, kvVars, stVars, quVars, crVars, ixVars, txVars, agVars, qpVars, enVars, thVars, gbVars, rsVars, spVars, wbVars, fdVars, vwVars>>

CcNext == CcPut \/ CcGetLocation

SpecCache == CcInit /\ [][CcNext]_vars

\* the fields of a Location that writeBinaryLocation writes
StoredFields(l) ==
    [City |-> l.City, County |-> l.County, State |-> l.State, Country |-> l.Country,
     Lat |-> l.Lat, Lon |-> l.Lon]

\* C20: the cache tells three states of a key apart. After Put(key, raw, loc)
\* GetLocation(key) returns found = true and a location whose stored fields
\* (City, County, State, Country, Lat, Lon) are those of loc; after
\* Put(key, raw, none) it returns (none, true); for a key never put it returns
\* (none, false). A key is in the raw bucket exactly when it is in the point
\* bucket, and Get returns the raw response of the same Put.
C20_ThreeStates ==
    /\ \A key \in CacheKeys :
          LET r == CacheGetLocation(gcCache, key)
              raw == CacheGet(gcCache, key)
          IN  IF key \in DOMAIN gcHist.put
              THEN LET pos == gcHist.put[key].pos
                   IN  /\ ~r.err
                       /\ r.found
                       /\ r.loc.nil = pos.nil
                       /\ ~pos.nil => StoredFields(r.loc.v) = StoredFields(pos.v)
                       /\ raw = Bytes(gcHist.put[key].data)
              ELSE /\ r = [loc |-> NoLoc, found |-> FALSE, err |-> FALSE]
                   /\ raw = NilBytes
    /\ DOMAIN gcCache.c = DOMAIN gcCache.p

C20_Witness ==
    /\ gcHist.last.op = "getlocation"
    /\ gcHist.last.key = <<114>>
    /\ <<114>> \in DOMAIN gcHist.put
    /\ gcHist.put[<<114>>].pos = Loc(Paris)
    /\ gcHist.last.r.found
    /\ gcHist.last.r.loc.v.City = Paris.City
    /\ <<110>> \in DOMAIN gcHist.put
    /\ gcHist.put[<<110>>].pos.nil
    /\ CacheGetLocation(gcCache, <<110>>) = [loc |-> NoLoc, found |-> TRUE, err |-> FALSE]

----------------------------------------------------------------------------
(* SpecGeocoder: lookups through a Geocoder over a newly opened cache *)

GeoQueries == {<<80>>}                                  \* "P"
GeoCodes == {<<>>, <<102, 114>>, <<70, 82>>}            \* "", "fr", "FR"
QuotaError == "payment required"
\* what rawGeocode and ReadAll give: an error, or the body of a 200 response
GeoRemotes ==
    {[err |-> QuotaError, body |-> <<>>]}
        \cup {[err |-> NoErr, body |-> b] : b \in {<<>>, <<2>>, <<1, 80>>, <<3, 80>>}}

GeInit == CcInit

\* the record of a lookup: known tells that an earlier lookup of (q, cc) went
\* through the provider and returned without an error
GeLast(op, q, cc, offline, r) ==
    [op |-> op, q |-> q, cc |-> cc, offline |-> offline,
     known |-> <<q, cc>> \in gcHist.done,
     called |-> r.called, err |-> r.err, res |-> r.res]

GeDone(q, cc, r) ==
    IF r.called /\ r.err = NoErr THEN gcHist.done \cup {<<q, cc>>} ELSE gcHist.done

\* Geocoder.Geocode
GGeocode ==
    \E q \in GeoQueries, cc \in GeoCodes, offline \in BOOLEAN, remote \in GeoRemotes :
        LET r == Geocode(gcCache, q, cc, offline, remote)
        IN  /\ gcCache' = r.cache
            /\ gcHist' = [gcHist EXCEPT !.done = GeDone(q, cc, r),
                                        !.last = GeLast("geocode", q, cc, offline, r)]
            /\ UNCHANGED <<kvVars, stVars, quVars, crVars, ixVars, txVars, agVars, qpVars, enVars, thVars, gbVars, rsVars, spVars, wbVars, fdVars, vwVars>>

\* geocodeOffers, one candidate c: the cached point first, Geocode(c, "fr",
\* false) when the cache does not know c and the quota allows
GCandidate ==
    \E c \in GeoQueries, quota \in BOOLEAN, remote \in GeoRemotes :
        LET fr == <<102, 114>>
            g == GetCachedLocation(gcCache, c, fr)
            skip == [res |-> NoDoc, err |-> NoErr, cache |-> gcCache, called |-> FALSE]
            r == IF g.err \/ ~g.loc.nil \/ g.found \/ ~quota THEN skip
                 ELSE Geocode(gcCache, c, fr, FALSE, remote)
        IN  /\ gcCache' = r.cache
            /\ gcHist' = [gcHist EXCEPT !.done = GeDone(c, fr, r),
                                        !.last = GeLast("candidate", c, fr, FALSE, r)]
            /\ UNCHANGED <<kvVars, stVars, quVars, crVars, ixVars, txVars, agVars, qpVars, enVars, thVars, gbVars, rsVars, spVars, wbVars, fdVars, vwVars>>

GeNext == GGeocode \/ GCandidate

SpecGeocoder == GeInit /\ [][GeNext]_vars

\* C19: a lookup of (q, cc) made after a lookup of the same (q, cc) went
\* through the remote provider and returned without an error, with or without
\* a result, issues no remote call; Geocode answers it with the cached document.
C19_NoSecondRemoteCall ==
    (gcHist.last.op \in {"geocode", "candidate"} /\ gcHist.last.known) =>
        /\ ~gcHist.last.called
        /\ gcHist.last.op = "geocode" =>
              /\ gcHist.last.err = NoErr
              /\ ~gcHist.last.res.nil
              /\ gcHist.last.res.Cached

C19_Witness ==
    /\ gcHist.last.op = "geocode"
    /\ gcHist.last.known
    /\ ~gcHist.last.offline
    /\ ~gcHist.last.called
    /\ gcHist.last.cc = <<70, 82>>
    /\ gcHist.last.res.Cached
    /\ gcHist.last.res.Results = <<>>

----------------------------------------------------------------------------
(* SpecGeoKeys: the spellings under which callers reach the geocoder cache *)

\* strings.TrimSpace on ASCII: leading and trailing spaces and tabs removed
IsSpace(b) == b = 32 \/ b = 9
RECURSIVE TrimLeft(_)
TrimLeft(s) == IF s # <<>> /\ IsSpace(Head(s)) THEN TrimLeft(Tail(s)) ELSE s
RECURSIVE TrimRight(_)
TrimRight(s) ==
    IF s # <<>> /\ IsSpace(s[Len(s)]) THEN TrimRight(SubSeq(s, 1, Len(s) - 1)) ELSE s
TrimSpace(s) == TrimRight(TrimLeft(s))

\* fixLocation of a plain place name (no " ou ", no known prefix, no digits,
\* ASCII): the candidates are the trimmed lower-cased name, if not empty
fixLocation(s) ==
    LET r == TrimSpace(ToLower(s))
    IN  IF r = <<>> THEN <<>> ELSE <<r>>

\* findOffersFromLocation, the text before the comma of a location query:
\* the argument it gives GetCachedLocation
WebQueryText(part) == ToLower(part)

KeyTexts == {<<112>>, <<80>>, <<80, 32>>}               \* "p", "P", "P "
KeyCodes == {<<102, 114>>, <<70, 82>>}                  \* "fr", "FR"
KeyRemotes ==
    {[err |-> QuotaError, body |-> <<>>], [err |-> NoErr, body |-> <<2>>],
     [err |-> NoErr, body |-> <<1, 80>>]}

\* the record of a lookup of the cached point
KeLast(op, q, cc, g) ==
    [op |-> op, q |-> q, cc |-> cc, found |-> g.found, loc |-> g.loc]

\* geocodeOffers for one offer whose Location is s, the quota allowing remote
\* calls: every candidate is looked up in the cache, then geocoded
KOffer ==
    \E s \in KeyTexts, remote \in KeyRemotes :
        LET fr == <<102, 114>>
            cs == fixLocation(s)
            g == GetCachedLocation(gcCache, cs[1], fr)
            r == Geocode(gcCache, cs[1], fr, FALSE, remote)
        IN  /\ cs # <<>>
            /\ ~g.err /\ g.loc.nil /\ ~g.found
            /\ gcCache' = r.cache
            /\ gcHist' = [gcHist EXCEPT
                            !.done = IF r.err = NoErr THEN @ \cup {<<s, fr>>} ELSE @,
                            !.last = [op |-> "offer", q |-> s, cc |-> fr,
                                      found |-> r.err = NoErr, loc |-> NoLoc]]
            /\ UNCHANGED <<kvVars, stVars, quVars, crVars, ixVars, txVars, agVars, qpVars, enVars, thVars, gbVars, rsVars, spVars, wbVars, fdVars, vwVars>>

\* Geocoder.Geocode called with the text and the country code as given
KGeocode ==
    \E q \in KeyTexts, cc \in KeyCodes, remote \in KeyRemotes :
        LET r == Geocode(gcCache, q, cc, FALSE, remote)
        IN  /\ gcCache' = r.cache
            /\ gcHist' = [gcHist EXCEPT
                            !.done = IF r.err = NoErr THEN @ \cup {<<q, cc>>} ELSE @,
                            !.last = [op |-> "geocode", q |-> q, cc |-> cc,
                                      found |-> r.err = NoErr, loc |-> NoLoc]]
            /\ UNCHANGED <<kvVars, stVars, quVars, crVars, ixVars, txVars, agVars, qpVars, enVars, thVars, gbVars, rsVars, spVars, wbVars, fdVars, vwVars>>

\* findOffersFromLocation with a location query whose text is part
KWeb ==
    \E part \in KeyTexts :
        LET fr == <<102, 114>>
            g == GetCachedLocation(gcCache, WebQueryText(part), fr)
        IN  /\ gcHist' = [gcHist EXCEPT !.last = KeLast("web", part, fr, g)]
            /\ UNCHANGED <<gcCache, kvVars, stVars, quVars, crVars, ixVars, txVars, agVars, qpVars, enVars, thVars, gbVars, rsVars, spVars, wbVars, fdVars, vwVars>>

\* Geocoder.GetCachedLocation called with the text and the code as given
KCached ==
    \E q \in KeyTexts, cc \in KeyCodes :
        LET g == GetCachedLocation(gcCache, q, cc)
        IN  /\ gcHist' = [gcHist EXCEPT !.last = KeLast("cached", q, cc, g)]
            /\ UNCHANGED <<gcCache, kvVars, stVars, quVars, crVars, ixVars, txVars, agVars, qpVars, enVars, thVars, gbVars, rsVars, spVars, wbVars, fdVars, vwVars>>

KeNext == KOffer \/ KGeocode \/ KWeb \/ KCached

SpecGeoKeys == GeInit /\ [][KeNext]_vars

\* the canonical spelling of a query text and of a country code
CanonText(q) == ToLower(TrimSpace(q))
CanonCode(cc) == IF cc = <<>> THEN <<117, 110, 107>> ELSE ToLower(cc)

\* C21: a lookup of the cached location under a query text and a country code
\* finds the entry that an earlier successful Geocode cached under any text
\* equal to it after trimming and lower-casing, and any code equal after
\* lower-casing.
C21_CanonicalKeys ==
    gcHist.last.op \in {"web", "cached"} =>
        \A d \in gcHist.done :
            (CanonText(d[1]) = CanonText(gcHist.last.q)
                /\ CanonCode(d[2]) = CanonCode(gcHist.last.cc)) => gcHist.last.found

\* a result cached by geocodeOffers for the offer location "p" is not found
\* by the web search for "P "
C21_SpellingMissed ==
    /\ gcHist.last.op = "web"
    /\ gcHist.last.q = <<80, 32>>
    /\ <<<<112>>, <<102, 114>>>> \in gcHist.done
    /\ ~gcHist.last.found

----------------------------------------------------------------------------
(* SpecKVTx: KVDB.Update and KVDB.View calls, step by step *)

\* bytes.IndexByte(k, 0): the first position of a 0 byte, 0 when there is none
IndexByte0(k) ==
    IF \E i \in 1..Len(k) : k[i] = 0
    THEN CHOOSE i \in 1..Len(k) : k[i] = 0 /\ \A j \in 1..(i - 1) : k[j] # 0
    ELSE 0

\* Tx.ListPrefixes over the enumeration of every key
RECURSIVE ListPrefixesLoop(_, _, _, _)
ListPrefixesLoop(enum, i, prev, prefixes) ==
    LET k == enum[i]
        pos == IndexByte0(k)
        cur == SubSeq(k, 1, pos - 1)
    IN  IF i > Len(enum) THEN prefixes
        ELSE IF pos = 0 THEN ListPrefixesLoop(enum, i + 1, prev, prefixes)
        ELSE IF prev = cur THEN ListPrefixesLoop(enum, i + 1, prev, prefixes)
        ELSE ListPrefixesLoop(enum, i + 1, cur, Append(prefixes, cur))

ListPrefixes(db) == ListPrefixesLoop(SortKeys(DbKeys(db)), 1, <<>>, <<>>)

\* the body of the loop of Tx.UpdateSize for one prefix: p gets its separator
\* byte, every key from p on that starts with p is counted, and the counter
\* named by sizePrefix(p) is moved by size-count
UpdateSizeOne(db, prefix) ==
    LET p == prefix \o <<0>>
        count == Cardinality({k \in DbKeys(db) : ~BytesLess(k, p) /\ HasPrefix(k, p)})
        szPrefix == sizePrefix(p)
        size == DbCtr(db, szPrefix)
    IN  DbInc(DbInc(db, szPrefix, 0), szPrefix, size - count)

RECURSIVE UpdateSizeLoop(_, _, _)
UpdateSizeLoop(db, prefixes, i) ==
    IF i > Len(prefixes) THEN db
    ELSE UpdateSizeLoop(UpdateSizeOne(db, prefixes[i]), prefixes, i + 1)

UpdateSize(db) == UpdateSizeLoop(db, ListPrefixes(db), 1)

\* Tx.Put before the size counters (kvdb.go): the chunks are written, nothing else
OldTxPut(db, maxSize, prefix, key, value) == TxPutLoop(db, maxSize, prefix, key, 1, value)

\* what the deferred function of Update leaves: the transaction's writes when
\* Commit succeeded (done), else the database as of BeginTransaction
UpdateEndKeep(db, before, done) == db

UpdateEnd(db, before, done) == IF done THEN db ELSE before

MaxTxOps == 3       \* SpecKVTx: calls on a Tx made in one run
MaxDelta == 2       \* SpecKVTx: largest delta given to IncSeq

TxMaxSize == OpenMaxSize(2)
TxSlots == {<<kvDeletedBucket, <<97>>>>, <<kvDeletedKeysBucket, <<97>>>>}
TxValues == {<<>>, <<1, 2>>}
Slot(p, k) == <<p, k>>

\* the databases Update starts from: a new one, and two written before the
\* size counters existed
TxSeeds ==
    {[db |-> EmptyDB, ref |-> <<>>],
     [db |-> OldTxPut(EmptyDB, TxMaxSize, kvDeletedBucket, <<97>>, <<1, 2>>),
      ref |-> (Slot(kvDeletedBucket, <<97>>) :> <<1, 2>>)],
     [db |-> OldTxPut(OldTxPut(EmptyDB, TxMaxSize, kvDeletedBucket, <<97>>, <<>>),
                      TxMaxSize, kvDeletedKeysBucket, <<97>>, <<1, 2>>),
      ref |-> (Slot(kvDeletedBucket, <<97>>) :> <<>>)
                  @@ (Slot(kvDeletedKeysBucket, <<97>>) :> <<1, 2>>)]}

\* the history of the committed state (c) and of the state the transaction
\* in progress sees (w): the values put, the deltas given to IncSeq, what
\* IncSeq returned, whether UpdateSize ran
TxHist0(ref) ==
    [ref |-> ref, sum |-> [p \in KVPrefixes |-> 0], rets |-> [p \in KVPrefixes |-> <<>>],
     sized |-> FALSE]

TxInit ==
    /\ KVIdle
    /\ StIdle
    /\ QuIdle
    /\ CrIdle
    /\ IxIdle
    /\ GcIdle
    /\ AgIdle
    /\ QpIdle
    /\ EnIdle
    /\ ThIdle
    /\ GbIdle
    /\ RsIdle
    /\ SpIdle
    /\ WbIdle
    /\ FdIdle
    /\ VwIdle
    /\ \E seed \in TxSeeds :
          /\ tdb = seed.db
          /\ tHist = [before |-> seed.db, c |-> TxHist0(seed.ref),
                      w |-> TxHist0(seed.ref), last |-> [op |-> "open"]]
    /\ ttx = [pc |-> "idle", n |-> 0]

TxOthers == <<kvVars, stVars, quVars, crVars, ixVars, gcVars, agVars, qpVars, enVars, thVars, gbVars, rsVars, spVars, wbVars, fdVars, vwVars>>

\* Update: the lock is taken and BeginTransaction called
TBegin ==
    /\ ttx.pc = "idle"
    /\ ttx.n < MaxTxOps
    /\ ttx' = [ttx EXCEPT !.pc = "update"]
    /\ tHist' = [tHist EXCEPT !.before = tdb, !.w = tHist.c,
                              !.last = [op |-> "begin"]]
    /\ UNCHANGED <<tdb, TxOthers>>

TStep == ttx.pc = "update" /\ ttx.n < MaxTxOps /\ ttx' = [ttx EXCEPT !.n = @ + 1]

TPut ==
    /\ TStep
    /\ \E s \in TxSlots, v \in TxValues :
          /\ tdb' = TxPut(tdb, TxMaxSize, s[1], s[2], v)
          /\ tHist' = [tHist EXCEPT !.w.ref = (s :> v) @@ @,
                                    !.last = [op |-> "put"]]
    /\ UNCHANGED TxOthers

TDelete ==
    /\ TStep
    /\ \E s \in TxSlots :
          /\ tdb' = TxDelete(tdb, TxMaxSize, s[1], s[2])
          /\ tHist' = [tHist EXCEPT
                         !.w.ref = [x \in DOMAIN @ \ {s} |-> @[x]],
                         !.last = [op |-> "delete"]]
    /\ UNCHANGED TxOthers

TIncSeq ==
    /\ TStep
    /\ \E p \in KVPrefixes, d \in 1..MaxDelta :
          /\ tdb' = TxIncSeq(tdb, p, d)
          /\ tHist' = [tHist EXCEPT
                         !.w.sum[p] = @ + d,
                         !.w.rets[p] = Append(@, TxGetSeq(tdb', p)),
                         !.last = [op |-> "incseq", p |-> p, d |-> d,
                                   ret |-> TxGetSeq(tdb', p),
                                   old |-> TxGetSeq(tdb, p)]]
    /\ UNCHANGED TxOthers

\* Tx.GetSeq, in an Update or in a View: Inc(key, 0)
TGetSeq ==
    /\ ttx.n < MaxTxOps
    /\ ttx' = [ttx EXCEPT !.n = @ + 1]
    /\ \E p \in KVPrefixes :
          /\ tdb' = TxIncSeq(tdb, p, 0)
          /\ tHist' = [tHist EXCEPT
                         !.last = [op |-> "getseq", p |-> p, d |-> 0,
                                   ret |-> TxGetSeq(tdb', p),
                                   old |-> TxGetSeq(tdb, p)]]
    /\ UNCHANGED TxOthers

TUpdateSize ==
    /\ TStep
    /\ tdb' = UpdateSize(tdb)
    /\ tHist' = [tHist EXCEPT !.w.sized = TRUE, !.last = [op |-> "updatesize"]]
    /\ UNCHANGED TxOthers

\* the action returned nil and Commit succeeded
TCommit ==
    /\ ttx.pc = "update"
    /\ ttx' = [ttx EXCEPT !.pc = "idle"]
    /\ tdb' = UpdateEnd(tdb, tHist.before, TRUE)
    /\ tHist' = [tHist EXCEPT !.c = tHist.w, !.last = [op |-> "commit"]]
    /\ UNCHANGED TxOthers

\* the action returned an error or panicked: the deferred Rollback
TAbort ==
    /\ ttx.pc = "update"
    /\ ttx' = [ttx EXCEPT !.pc = "idle"]
    /\ tdb' = UpdateEnd(tdb, tHist.before, FALSE)
    /\ \E why \in {"error", "panic"} :
          tHist' = [tHist EXCEPT !.w = tHist.c,
                                 !.last = [op |-> "abort", why |-> why,
                                           dirty |-> tdb # tHist.before]]
    /\ UNCHANGED TxOthers

TxNext ==
    TBegin \/ TPut \/ TDelete \/ TIncSeq \/ TGetSeq \/ TUpdateSize \/ TCommit \/ TAbort

SpecKVTx == TxInit /\ [][TxNext]_vars

StrictlyIncreasing(s) == \A i \in 1..(Len(s) - 1) : s[i] < s[i + 1]

\* C22: IncSeq(p, d) returns the sum of the deltas given for p by the
\* committed transactions and by the running one, d included; the values it
\* returned in committed transactions, followed by those of the running one,
\* are strictly increasing; GetSeq(p) returns that sum and leaves it as it
\* was; List(p) holds the keys put under p and never the counter.
C22_Sequences ==
    /\ \A p \in KVPrefixes :
          /\ TxGetSeq(tdb, p) = tHist.w.sum[p]
          /\ StrictlyIncreasing(tHist.w.rets[p])
          /\ TxList(tdb, p) = SortKeys({s[2] : s \in {x \in DOMAIN tHist.w.ref : x[1] = p}})
    /\ tHist.last.op = "incseq" =>
          tHist.last.ret = tHist.w.sum[tHist.last.p]
    /\ tHist.last.op = "getseq" =>
          /\ tHist.last.ret = tHist.w.sum[tHist.last.p]
          /\ tHist.last.ret = tHist.last.old

\* a second committed IncSeq on a prefix whose counter another prefix's
\* IncSeq came between, with a key stored under the prefix
C22_Witness ==
    /\ tHist.last.op = "commit"
    /\ Len(tHist.c.rets[kvDeletedBucket]) = 2
    /\ Len(tHist.c.rets[kvDeletedKeysBucket]) = 1
    /\ TxList(tdb, kvDeletedBucket) = <<<<97>>>>

\* C23: once UpdateSize has run in a committed Update, Size(p) is the number
\* of keys List(p) returns, for every prefix p.
C23_SizeAfterUpdateSize ==
    (ttx.pc = "idle" /\ tHist.c.sized) =>
        \A p \in KVPrefixes : TxSize(tdb, p) = Len(TxList(tdb, p))

\* a database written before the size counters: after the committed
\* UpdateSize "d" lists one key, Size("d") is still 0, and the counter that
\* moved is the one named from "d" with its separator byte, by minus the
\* number of chunks
C23_SizeWrong ==
    /\ ttx.pc = "idle"
    /\ tHist.c.sized
    /\ tHist.last.op = "commit"
    /\ TxList(tdb, kvDeletedBucket) = <<<<97>>>>
    /\ TxSize(tdb, kvDeletedBucket) = 0
    /\ DbCtr(tdb, sizePrefix(kvDeletedBucket \o <<0>>)) = -2

\* C24: when the function given to Update returns an error or panics, the
\* database is the one Update began with: every Get, List, GetSeq and Size
\* gives what the committed transactions left.
C24_Rollback ==
    tHist.last.op = "abort" =>
        /\ tdb = tHist.before
        /\ \A p \in KVPrefixes :
              /\ TxGetSeq(tdb, p) = tHist.c.sum[p]
              /\ TxList(tdb, p) =
                    SortKeys({s[2] : s \in {x \in DOMAIN tHist.c.ref : x[1] = p}})
        /\ \A s \in TxSlots :
              TxGet(tdb, TxMaxSize, s[1], s[2]) =
                  IF s \in DOMAIN tHist.c.ref THEN Bytes(tHist.c.ref[s]) ELSE NilBytes

\* a panic after the transaction wrote, following a committed IncSeq
C24_Witness ==
    /\ tHist.last.op = "abort"
    /\ tHist.last.why = "panic"
    /\ tHist.last.dirty
    /\ tHist.c.sum[kvDeletedBucket] > 0

----------------------------------------------------------------------------
(* Offer ages and initial dates (Store.PutOfferDate, Store.GetInitialDate).
   Dates are counted in days; the zero time.Time is day 0 and every
   publication date is later than it. *)

ZeroDate == 0
Tolerance == 7

OfferAge(id, deletedId, pub, del) ==
    [Id |-> id, DeletedId |-> deletedId, PublicationDate |-> pub,
     DeletionDate |-> del, InitialDate |-> ZeroDate]

SamePair(a, b) == a.Id = b.Id /\ a.DeletedId = b.DeletedId

\* the deletion date the computation uses: never before the publication date
ClampedDeletion(r) ==
    IF r.DeletionDate < r.PublicationDate THEN r.PublicationDate
    ELSE r.DeletionDate

\* PutOfferDate without the deduplication: the record is appended
DedupAgesKeepBoth(list, age) == Append(list, age)

\* the list without the record of age's (id, virtualDeletedId), then age
DedupAges(list, age) ==
    LET Other(r) == ~SamePair(r, age)
    IN Append(SelectSeq(list, Other), age)

\* the orders a sort by publication date may leave the records in
SortedByPublication(list) ==
    LET n == Len(list)
    IN {s \in [1..n -> {list[i] : i \in 1..n}] :
            /\ \A i, j \in 1..n : i # j => s[i] # s[j]
            /\ \A i, j \in 1..n : i < j =>
                   s[i].PublicationDate <= s[j].PublicationDate}

\* a group that only the first record of the list starts
StartsGroupFirstOnly(i, prevEnd, pub) == i = 1

\* whether the record at position i, published at pub, resets minStart
StartsGroup(i, prevEnd, pub) == i = 1 \/ prevEnd + Tolerance < pub

RECURSIVE WalkAges(_, _, _, _)
WalkAges(s, i, minStart, prevEnd) ==
    IF i > Len(s) THEN <<>>
    ELSE LET r == s[i]
             start == IF StartsGroup(i, prevEnd, r.PublicationDate)
                      THEN r.PublicationDate ELSE minStart
         IN <<[r EXCEPT !.InitialDate = start]>>
                \o WalkAges(s, i + 1, start, ClampedDeletion(r))

computeInitialDates(sorted) == WalkAges(sorted, 1, ZeroDate, ZeroDate)

\* initialdates/<id>: written for each record of the list in turn
InitialDatePointers(list) ==
    LET ids == {list[i].Id : i \in DOMAIN list}
        LastOf(id) == CHOOSE i \in DOMAIN list :
                          /\ list[i].Id = id
                          /\ \A j \in DOMAIN list : list[j].Id = id => j <= i
    IN [id \in ids |-> list[LastOf(id)].InitialDate]

GetInitialDate(pointers, id) ==
    IF id \in DOMAIN pointers THEN pointers[id] ELSE ZeroDate

AgeIds == {"o1", "o2"}
AgeDays == {1, 8, 16}
\* live records of both ids, and deleted records of the first
AgeInputs ==
    {OfferAge(id, 0, pub, ZeroDate) : id \in AgeIds, pub \in AgeDays}
        \cup {OfferAge("o1", 1, pub, del) : pub \in AgeDays, del \in AgeDays}

AgOthers == <<kvVars, stVars, quVars, crVars, ixVars, gcVars, txVars, qpVars, enVars, thVars, gbVars, rsVars, spVars, wbVars, fdVars, vwVars>>

AgInit ==
    /\ KVIdle
    /\ StIdle
    /\ QuIdle
    /\ CrIdle
    /\ IxIdle
    /\ GcIdle
    /\ TxIdle
    /\ AgIdle
    /\ QpIdle
    /\ EnIdle
    /\ ThIdle
    /\ GbIdle
    /\ RsIdle
    /\ SpIdle
    /\ WbIdle
    /\ FdIdle
    /\ VwIdle

APutOfferDate ==
    \E age \in AgeInputs :
        \E sorted \in SortedByPublication(DedupAges(ages, age)) :
            /\ ages' = computeInitialDates(sorted)
            /\ initialDates' = InitialDatePointers(ages')
            /\ agLast' = [op |-> "put", age |-> age, before |-> ages,
                          ret |-> GetInitialDate(initialDates', age.Id)]
            /\ UNCHANGED AgOthers

AGetInitialDate ==
    \E id \in AgeIds \cup {"o3"} :
        /\ agLast' = [op |-> "get", id |-> id,
                      ret |-> GetInitialDate(initialDates, id)]
        /\ UNCHANGED <<ages, initialDates>>
        /\ UNCHANGED AgOthers

AgNext ==
    \/ APutOfferDate
    \/ AGetInitialDate

SpecAges == AgInit /\ [][AgNext]_vars

\* every record of the stored list is published within the tolerance of the
\* deletion of the one before it
AllWithinTolerance ==
    \A i \in 2..Len(ages) :
        ages[i].PublicationDate
            <= ClampedDeletion(ages[i - 1]) + Tolerance

EarliestPublication ==
    CHOOSE d \in {ages[i].PublicationDate : i \in DOMAIN ages} :
        \A i \in DOMAIN ages : d <= ages[i].PublicationDate

\* C25: when every record stored under the fingerprint is published no
\* later than 7 days after the deletion of the record before it, every
\* record and every recorded id has the earliest publication date of the set
\* as its initial date; a record published more than 7 days after the
\* deletion of the record before it has its own publication date as initial
\* date; GetInitialDate of an id never recorded is the zero date.
C25_InitialDates ==
    /\ (ages # <<>> /\ AllWithinTolerance) =>
           \A i \in DOMAIN ages :
               /\ ages[i].InitialDate = EarliestPublication
               /\ GetInitialDate(initialDates, ages[i].Id)
                      = EarliestPublication
    /\ \A i \in 2..Len(ages) :
           ages[i].PublicationDate
               > ClampedDeletion(ages[i - 1]) + Tolerance
           => ages[i].InitialDate = ages[i].PublicationDate
    /\ \A id \in AgeIds \cup {"o3"} :
           (\A i \in DOMAIN ages : ages[i].Id # id)
           => GetInitialDate(initialDates, id) = ZeroDate
    /\ (agLast.op = "get" /\ \A i \in DOMAIN ages : ages[i].Id # agLast.id)
           => agLast.ret = ZeroDate

\* two records in one group, a third one starting a group of its own, and a
\* lookup of an id never recorded
C25_Witness ==
    /\ Len(ages) = 3
    /\ ages[2].PublicationDate > ages[1].PublicationDate
    /\ ages[2].PublicationDate <= ClampedDeletion(ages[1]) + Tolerance
    /\ ages[2].InitialDate = ages[1].PublicationDate
    /\ ages[3].InitialDate = ages[3].PublicationDate
    /\ ages[3].InitialDate > ages[1].PublicationDate
    /\ agLast.op = "get"
    /\ agLast.id = "o3"

\* the index of the record that starts the group of record i
GroupStart(i) ==
    CHOOSE j \in 1..i :
        /\ j = 1 \/ ages[j].PublicationDate
                        > ClampedDeletion(ages[j - 1]) + Tolerance
        /\ \A k \in (j + 1)..i :
               ages[k].PublicationDate
                   <= ClampedDeletion(ages[k - 1]) + Tolerance

Dates(r) == [Id |-> r.Id, DeletedId |-> r.DeletedId,
             PublicationDate |-> r.PublicationDate,
             DeletionDate |-> r.DeletionDate]

DatesOf(list) == {Dates(list[i]) : i \in DOMAIN list}

\* C26: the list holds at most one record per (id, virtualDeletedId); a
\* PutOfferDate replaces the record of the same pair, leaves the dates of
\* the other records alone, and the initial dates are those of the list
\* after the replacement: the publication date of the first record of each
\* group, which PutOfferDate's caller reads back for the id.
C26_Dedup ==
    /\ \A i, j \in DOMAIN ages : SamePair(ages[i], ages[j]) => i = j
    /\ \A i \in DOMAIN ages :
           ages[i].InitialDate = ages[GroupStart(i)].PublicationDate
    /\ agLast.op = "put" =>
           /\ Dates(agLast.age) \in DatesOf(ages)
           /\ DatesOf(ages) \ {Dates(agLast.age)}
                  = {d \in DatesOf(agLast.before) : ~SamePair(d, agLast.age)}
           /\ Len(ages) = 1 => agLast.ret = agLast.age.PublicationDate

\* a record replaces the one of its pair with a later publication date, and
\* the initial date read back moves with it
C26_Witness ==
    /\ agLast.op = "put"
    /\ Len(ages) = 2
    /\ Len(agLast.before) = 2
    /\ \E i \in DOMAIN agLast.before :
           /\ SamePair(agLast.before[i], agLast.age)
           /\ agLast.before[i].PublicationDate < agLast.age.PublicationDate
           /\ agLast.before[i].InitialDate < agLast.ret

----------------------------------------------------------------------------
(* The query expression parser (blevext: query.go, query.y).
   Strings are sequences of bytes. *)

NodeAnd == 1
NodeOr == 2
NodeString == 3
NodePhrase == 4

NilNode == [Kind |-> 0, Children |-> <<>>, Value |-> <<>>]
Leaf(kind, value) == [Kind |-> kind, Children |-> <<>>, Value |-> value]
Branch(kind, left, right) ==
    [Kind |-> kind, Children |-> <<left, right>>, Value |-> <<>>]

Token(yys, str) == [yys |-> yys, s |-> str]

\* strings.IndexByte(s, c) + 1, or 0 when c is not in s
IndexOfByte(str, c) ==
    IF \E i \in 1..Len(str) : str[i] = c
    THEN CHOOSE i \in 1..Len(str) :
             str[i] = c /\ \A j \in 1..(i - 1) : str[j] # c
    ELSE 0

\* the length of the symbol at the start of input: up to a space or parenthesis
SymbolLen(input) ==
    LET Stops(i) == IsSpace(input[i]) \/ input[i] = 41 \/ input[i] = 40
    IN IF \E i \in 1..Len(input) : Stops(i)
       THEN (CHOOSE i \in 1..Len(input) :
                 Stops(i) /\ \A j \in 1..(i - 1) : ~Stops(j)) - 1
       ELSE Len(input)

SymbolType(str) ==
    IF str = <<97, 110, 100>> THEN "tAND"
    ELSE IF str = <<111, 114>> THEN "tOR"
    ELSE "tSTRING"

RECURSIVE LexLoop(_, _)
LexLoop(text, tokens) ==
    LET input == TrimLeft(text)
    IN IF input = <<>> THEN [tokens |-> tokens, err |-> NoErr]
       ELSE IF input[1] = 40 \/ input[1] = 41
       THEN LexLoop(Tail(input),
                Append(tokens,
                    Token(IF input[1] = 41 THEN "tRPARENS" ELSE "tLPARENS",
                          SubSeq(input, 1, 1))))
       ELSE IF input[1] = 34
       THEN LET pos == IndexOfByte(Tail(input), 34)
            IN IF pos = 0
               THEN [tokens |-> <<>>, err |-> "unclosed literal string"]
               ELSE LexLoop(SubSeq(input, pos + 2, Len(input)),
                        Append(tokens,
                            Token("tPHRASE", SubSeq(input, 2, pos))))
       ELSE LET pos == SymbolLen(input)
                str == SubSeq(input, 1, pos)
            IN LexLoop(SubSeq(input, pos + 1, Len(input)),
                   Append(tokens, Token(SymbolType(str), str)))

Lex(input) == LexLoop(input, <<>>)

\* both operators on one precedence level
PrecedenceFlat(yys) == IF yys = "tAND" THEN 1 ELSE 1

\* %left tOR, then %left tAND: the later line binds tighter
Precedence(yys) == IF yys = "tAND" THEN 2 ELSE 1

Part(n) == [sym |-> "queryPart", n |-> n]
Terminal(yys) == [sym |-> yys, n |-> NilNode]

\* yyParse on the grammar of query.y: a shift-reduce parse where a conflict
\* between reducing 'queryPart op queryPart' and shifting the next operator
\* is settled by precedence, and by left associativity on equal precedence
RECURSIVE yyParseLoop(_, _)
yyParseLoop(stack, tokens) ==
    LET n == Len(stack)
        la == IF tokens = <<>> THEN "$end" ELSE Head(tokens).yys
        top == IF n = 0 THEN "" ELSE stack[n].sym
        under == IF n < 2 THEN "" ELSE stack[n - 1].sym
        Failed == [res |-> 1, result |-> NilNode, err |-> "syntax error"]
        Shift == yyParseLoop(Append(stack, Terminal(la)), Tail(tokens))
        Reduce3(node) ==
            yyParseLoop(Append(SubSeq(stack, 1, n - 3), Part(node)), tokens)
    IN IF top = "tRPARENS"
       THEN Reduce3(stack[n - 1].n)
       ELSE IF top = "queryPart" /\ under \in {"tAND", "tOR"}
       THEN LET node == Branch(IF under = "tAND" THEN NodeAnd ELSE NodeOr,
                               stack[n - 2].n, stack[n].n)
            IN IF la \in {"tAND", "tOR"}
               THEN IF Precedence(under) >= Precedence(la)
                    THEN Reduce3(node) ELSE Shift
               ELSE IF la \in {"tRPARENS", "$end"} THEN Reduce3(node)
               ELSE Failed
       ELSE IF top = "queryPart"
       THEN IF la \in {"tAND", "tOR"} THEN Shift
            ELSE IF la = "tRPARENS" /\ under = "tLPARENS" THEN Shift
            ELSE IF la = "$end" /\ n = 1
            THEN [res |-> 0, result |-> stack[1].n, err |-> NoErr]
            ELSE Failed
       ELSE IF la \in {"tSTRING", "tPHRASE"}
       THEN yyParseLoop(
                Append(stack,
                    Part(Leaf(IF la = "tPHRASE" THEN NodePhrase ELSE NodeString,
                              Head(tokens).s))),
                Tail(tokens))
       ELSE IF la = "tLPARENS" THEN Shift
       ELSE IF la = "$end" /\ n = 0
       THEN [res |-> 0, result |-> NilNode, err |-> NoErr]
       ELSE Failed

yyParse(tokens) == yyParseLoop(<<>>, tokens)

Parse(input) ==
    LET lexed == Lex(input)
        parsed == yyParse(lexed.tokens)
    IN IF lexed.err # NoErr THEN [n |-> NilNode, err |-> lexed.err]
       ELSE IF parsed.res # 0 THEN [n |-> NilNode, err |-> parsed.err]
       ELSE [n |-> parsed.result, err |-> NoErr]

MaxWords == 5       \* words of the longest query expression typed

\* a, "b", and, or, (a, "b"), the empty word
QueryWords ==
    {<<97>>, <<34, 98, 34>>, <<97, 110, 100>>, <<111, 114>>,
     <<40, 97>>, <<34, 98, 34, 41>>, <<>>}

QpOthers == <<kvVars, stVars, quVars, crVars, ixVars, gcVars, txVars, agVars, enVars, thVars, gbVars, rsVars, spVars, wbVars, fdVars, vwVars>>

QpInit ==
    /\ KVIdle
    /\ StIdle
    /\ QuIdle
    /\ CrIdle
    /\ IxIdle
    /\ GcIdle
    /\ TxIdle
    /\ AgIdle
    /\ QpIdle
    /\ EnIdle
    /\ ThIdle
    /\ GbIdle
    /\ RsIdle
    /\ SpIdle
    /\ WbIdle
    /\ FdIdle
    /\ VwIdle

\* the user types one more word, after a space if it is not the first
QType ==
    \E w \in QueryWords :
        /\ qpInput.words < MaxWords
        /\ qpInput' = [words |-> qpInput.words + 1,
                       text |-> IF qpInput.words = 0 THEN w
                                ELSE qpInput.text \o <<32>> \o w]
        /\ qpResult' = [called |-> FALSE]
        /\ UNCHANGED QpOthers

QParse ==
    /\ ~qpResult.called
    /\ qpResult' = [called |-> TRUE, ret |-> Parse(qpInput.text)]
    /\ UNCHANGED qpInput
    /\ UNCHANGED QpOthers

QpNext ==
    \/ QType
    \/ QParse

SpecQuery == QpInit /\ [][QpNext]_vars

\* the tokens of the expression typed, as the grammar sees them: x for an
\* operand, the token type for the rest
Shape(tokens) ==
    [i \in DOMAIN tokens |->
        IF tokens[i].yys \in {"tSTRING", "tPHRASE"} THEN "x"
        ELSE tokens[i].yys]

\* the node of the operand token tokens[i]
Operand(tokens, i) ==
    Leaf(IF tokens[i].yys = "tPHRASE" THEN NodePhrase ELSE NodeString,
         tokens[i].s)

\* C27: AND binds tighter than OR, both are left-associative and parentheses
\* override: 'a or b and c' is OR(a, AND(b, c)), 'a and b or c' is
\* OR(AND(a, b), c), 'a and (b or c)' is AND(a, OR(b, c)), '(a or b) and c'
\* is AND(OR(a, b), c), 'a or b or c' is OR(OR(a, b), c), 'a and b and c' is
\* AND(AND(a, b), c); an empty or blank expression parses to no node, without
\* error.
C27_Precedence ==
    qpResult.called =>
        LET t == Lex(qpInput.text).tokens
            sh == Shape(t)
            X(i) == Operand(t, i)
            Is(node) == qpResult.ret = [n |-> node, err |-> NoErr]
        IN /\ sh = <<"x", "tOR", "x", "tAND", "x">> =>
                  Is(Branch(NodeOr, X(1), Branch(NodeAnd, X(3), X(5))))
           /\ sh = <<"x", "tAND", "x", "tOR", "x">> =>
                  Is(Branch(NodeOr, Branch(NodeAnd, X(1), X(3)), X(5)))
           /\ sh = <<"x", "tAND", "tLPARENS", "x", "tOR", "x", "tRPARENS">> =>
                  Is(Branch(NodeAnd, X(1), Branch(NodeOr, X(4), X(6))))
           /\ sh = <<"tLPARENS", "x", "tOR", "x", "tRPARENS", "tAND", "x">> =>
                  Is(Branch(NodeAnd, Branch(NodeOr, X(2), X(4)), X(7)))
           /\ sh = <<"x", "tOR", "x", "tOR", "x">> =>
                  Is(Branch(NodeOr, Branch(NodeOr, X(1), X(3)), X(5)))
           /\ sh = <<"x", "tAND", "x", "tAND", "x">> =>
                  Is(Branch(NodeAnd, Branch(NodeAnd, X(1), X(3)), X(5)))
           /\ TrimLeft(qpInput.text) = <<>> => Is(NilNode)

\* 'a or "b" and a' was parsed
C27_Witness ==
    /\ qpResult.called
    /\ qpInput.text = <<97, 32, 111, 114, 32, 34, 98, 34, 32,
                        97, 110, 100, 32, 97>>
    /\ qpResult.ret.err = NoErr
    /\ qpResult.ret.n.Kind = NodeOr
    /\ qpResult.ret.n.Children[2].Kind = NodeAnd

----------------------------------------------------------------------------
(* enumerateOffers (crawl.go), by the length of the pages searchOffers
   answers *)

overlap == 5
count == 250

\* a page short of count - overlap ids ends the enumeration
LastPageByOverlap(n) == n < count - overlap

\* if len(ids) < count { break }
LastPage(n) == n < count

MaxListed == 4      \* pages requested by one enumerateOffers call

\* the remote side is free to answer more than the range asked for
PageLens ==
    {0, count - overlap - 1, count - overlap, count - 1, count, count + 1}

EnOthers == <<kvVars, stVars, quVars, crVars, ixVars, gcVars, txVars, agVars, qpVars, thVars, gbVars, rsVars, spVars, wbVars, fdVars, vwVars>>

EnInit ==
    /\ KVIdle
    /\ StIdle
    /\ QuIdle
    /\ CrIdle
    /\ IxIdle
    /\ GcIdle
    /\ TxIdle
    /\ AgIdle
    /\ QpIdle
    /\ ThIdle
    /\ GbIdle
    /\ RsIdle
    /\ SpIdle
    /\ WbIdle
    /\ FdIdle
    /\ VwIdle
    /\ pager = [pc |-> "search", start |-> 0, n |-> 0, ret |-> NoErr,
               starts |-> <<>>, lens |-> <<>>]

\* searchOffers(start, count, ...) fails
ESearchFails ==
    /\ pager.pc = "search"
    /\ pager' = [pager EXCEPT !.pc = "done", !.ret = "search failed",
                            !.starts = Append(@, pager.start)]
    /\ UNCHANGED EnOthers

\* searchOffers(start, count, ...) answers n ids; start += (count - overlap)
ESearch ==
    /\ pager.pc = "search"
    /\ \E n \in PageLens :
           /\ Len(pager.starts) + 1 >= MaxListed => n < count
           /\ pager' = [pager EXCEPT !.pc = "callback", !.n = n,
                                   !.start = @ + (count - overlap),
                                   !.starts = Append(@, pager.start),
                                   !.lens = Append(@, n)]
    /\ UNCHANGED EnOthers

\* callback(ids) fails
ECallbackFails ==
    /\ pager.pc = "callback"
    /\ pager' = [pager EXCEPT !.pc = "done", !.ret = "callback failed"]
    /\ UNCHANGED EnOthers

\* callback(ids) returns nil
ECallback ==
    /\ pager.pc = "callback"
    /\ pager' = [pager EXCEPT !.pc = IF LastPage(pager.n) THEN "done"
                                   ELSE "sleep"]
    /\ UNCHANGED EnOthers

\* time.Sleep(delay), then the next turn of the loop
ESleep ==
    /\ pager.pc = "sleep"
    /\ pager' = [pager EXCEPT !.pc = "search"]
    /\ UNCHANGED EnOthers

EnNext ==
    \/ ESearchFails
    \/ ESearch
    \/ ECallbackFails
    \/ ECallback
    \/ ESleep

SpecLister == EnInit /\ [][EnNext]_vars

\* the enumeration ended by itself: no error, the loop was left by break
Stopped == pager.pc = "done" /\ pager.ret = NoErr

\* the callback accepted the last page and the loop goes on
GoesOn == pager.pc \in {"sleep", "search"} /\ pager.lens # <<>>

StartsApart ==
    \A k \in DOMAIN pager.starts :
        pager.starts[k] = (k - 1) * (count - overlap)

\* C28, as claimed: the lister stops exactly when a page returns fewer than
\* count - overlap (245) ids, and after a page of at least that many ids it
\* requests the next page, 245 further.
C28_StopsBelowOverlap ==
    /\ Stopped => pager.n < count - overlap
    /\ GoesOn => pager.n >= count - overlap
    /\ StartsApart

\* C28, amended: the lister stops exactly when a page returns fewer than
\* count (250) ids: every page before the last requested one held 250 ids,
\* and each page starts 245 after the one before it.
C28_StopsBelowCount ==
    /\ Stopped => pager.n < count
    /\ GoesOn => pager.n >= count
    /\ \A k \in 1..(Len(pager.starts) - 1) : pager.lens[k] >= count
    /\ StartsApart

\* the enumeration stopped after a full page and a page of 245 ids
C28_Witness ==
    /\ Stopped
    /\ pager.lens = <<count, count - overlap>>
    /\ pager.starts = <<0, count - overlap>>

----------------------------------------------------------------------------
(* tryHTTP (crawl.go). Durations are counted in seconds. *)

StatusNotFound == 404

HTTPError(code) == [kind |-> "HTTPError", Code |-> code]
NetError == [kind |-> "net", Code |-> 0]
NilError == [kind |-> "nil", Code |-> 0]

\* if h, ok := err.(*HTTPError); ok && h.Code == http.StatusNotFound
IsNotFound(err) == err.kind = "HTTPError" /\ err.Code = StatusNotFound

\* one more attempt after the last one allowed
ExhaustedLate(loops) == loops < 0

\* if loops <= 0 { return nil, err }
Exhausted(loops) == loops <= 0

MaxLoops == 5       \* largest retry count given to tryHTTP

BaseDelays == {1, 5}
\* what doHTTP may fail with, 404 apart
DoErrors == {HTTPError(500), NetError}

ThOthers == <<kvVars, stVars, quVars, crVars, ixVars, gcVars, txVars, agVars, qpVars, enVars, gbVars, rsVars, spVars, wbVars, fdVars, vwVars>>

ThInit ==
    /\ KVIdle
    /\ StIdle
    /\ QuIdle
    /\ CrIdle
    /\ IxIdle
    /\ GcIdle
    /\ TxIdle
    /\ AgIdle
    /\ QpIdle
    /\ EnIdle
    /\ GbIdle
    /\ RsIdle
    /\ SpIdle
    /\ WbIdle
    /\ FdIdle
    /\ VwIdle
    /\ \E baseDelay \in BaseDelays, loops \in 1..MaxLoops :
           fetch = [pc |-> "do", baseDelay |-> baseDelay, count |-> loops,
                    loops |-> loops, delay |-> baseDelay,
                    ok |-> FALSE, err |-> NilError,
                    requests |-> 0, errs |-> <<>>, waits |-> <<>>]

\* doHTTP succeeds: return output, nil
HSuccess ==
    /\ fetch.pc = "do"
    /\ fetch' = [fetch EXCEPT !.pc = "done", !.ok = TRUE,
                              !.requests = @ + 1]
    /\ UNCHANGED ThOthers

\* doHTTP answers 404: return nil, err
HNotFound ==
    /\ fetch.pc = "do"
    /\ fetch' = [fetch EXCEPT !.pc = "done",
                              !.err = HTTPError(StatusNotFound),
                              !.requests = @ + 1,
                              !.errs = Append(@, HTTPError(StatusNotFound))]
    /\ UNCHANGED ThOthers

\* doHTTP fails otherwise: loops -= 1, and return or sleep
HFailure ==
    /\ fetch.pc = "do"
    /\ \E err \in DoErrors :
           LET left == fetch.loops - 1
           IN fetch' = [fetch EXCEPT
                  !.pc = IF Exhausted(left) THEN "done" ELSE "sleep",
                  !.err = IF Exhausted(left) THEN err ELSE @,
                  !.loops = left,
                  !.requests = @ + 1,
                  !.errs = Append(@, err)]
    /\ UNCHANGED ThOthers

\* time.Sleep(delay); delay *= 2
HSleep ==
    /\ fetch.pc = "sleep"
    /\ fetch' = [fetch EXCEPT !.pc = "do", !.delay = @ * 2,
                              !.waits = Append(@, fetch.delay)]
    /\ UNCHANGED ThOthers

ThNext ==
    \/ HSuccess
    \/ HNotFound
    \/ HFailure
    \/ HSleep

SpecTryHTTP == ThInit /\ [][ThNext]_vars

\* C29: tryHTTP issues at most loops requests; a success or a 404 ends it at
\* once, so either is the last request; the k-th wait, after the k-th
\* failure, lasts baseDelay * 2^(k-1), and every request but the first comes
\* after such a wait; it gives up after exactly loops failures, returning the
\* error of the last one.
C29_Retries ==
    /\ fetch.requests <= fetch.count
    /\ fetch.ok => fetch.pc = "done" /\ Len(fetch.errs) = fetch.requests - 1
    /\ \A k \in DOMAIN fetch.errs :
           IsNotFound(fetch.errs[k]) =>
               /\ k = fetch.requests
               /\ fetch.pc = "done"
               /\ fetch.err = fetch.errs[k]
               /\ Len(fetch.waits) = k - 1
    /\ \A k \in DOMAIN fetch.waits :
           fetch.waits[k] = fetch.baseDelay * 2 ^ (k - 1)
    /\ fetch.pc = "do" => Len(fetch.waits) = fetch.requests
    /\ fetch.pc = "sleep" => Len(fetch.waits) = fetch.requests - 1
    /\ fetch.pc = "done" => Len(fetch.waits) = fetch.requests - 1
    /\ (fetch.pc = "done" /\ ~fetch.ok
            /\ ~IsNotFound(fetch.errs[Len(fetch.errs)])) =>
           /\ fetch.requests = fetch.count
           /\ Len(fetch.errs) = fetch.count
           /\ fetch.err = fetch.errs[fetch.count]
    /\ fetch.pc # "done" => fetch.requests < fetch.count

\* five failed requests of getOffer's tryHTTP(u, time.Second, 5, nil)
C29_Witness ==
    /\ fetch.pc = "done"
    /\ fetch.count = 5
    /\ fetch.requests = 5
    /\ fetch.waits = <<1, 2, 4, 8>>
    /\ fetch.err = NetError
    /\ fetch.errs[1] = HTTPError(500)

----------------------------------------------------------------------------
(* geocodeOffers (location.go): a batch of offers, each given by the
   candidates fixLocation makes of its location ("p ou l" gives p and l) *)

\* the quota flag only falls on a quota error
QuotaLeftUnlessError(quota, err, remaining, minQuota) ==
    quota /\ err # QuotaError

\* quota after Geocode returned err, or a document whose Rate.Remaining is
\* remaining
QuotaLeft(quota, err, remaining, minQuota) ==
    /\ quota
    /\ err # QuotaError
    /\ ~(err = NoErr /\ remaining <= minQuota)

MaxRemaining == 2   \* largest Rate.Remaining a response reports

BatchOffers ==
    {<<<<<<112>>, <<108>>>>, <<<<112>>>>, <<<<109>>>>>>,
     <<<<<<112>>>>, <<<<108>>, <<109>>>>, <<<<108>>>>>>}

MinQuotas == {0, 1}

\* what rawGeocode and ReadAll give, with the Rate.Remaining of the body
BatchRemotes ==
    {[err |-> e, body |-> <<>>, remaining |-> 0] : e \in {QuotaError, "http"}}
        \cup {[err |-> NoErr, body |-> b, remaining |-> n] :
                  b \in {<<2>>, <<1, 80>>}, n \in 0..MaxRemaining}

GbOthers == <<kvVars, stVars, quVars, crVars, ixVars, txVars, agVars, qpVars, enVars, thVars, rsVars, spVars, wbVars, fdVars, vwVars>>

GbInit ==
    /\ KVIdle
    /\ StIdle
    /\ QuIdle
    /\ CrIdle
    /\ IxIdle
    /\ GcIdle
    /\ TxIdle
    /\ AgIdle
    /\ QpIdle
    /\ EnIdle
    /\ ThIdle
    /\ RsIdle
    /\ SpIdle
    /\ WbIdle
    /\ FdIdle
    /\ VwIdle
    /\ \E offers \in BatchOffers, minQuota \in MinQuotas :
           geoBatch = [pc |-> "offer", offers |-> offers,
                       minQuota |-> minQuota, i |-> 1, cands |-> <<>>,
                       found |-> FALSE, quota |-> TRUE, rejected |-> 0,
                       err |-> NoErr,
                       calls |-> 0, spent |-> FALSE, late |-> 0,
                       quotaErrs |-> 0, skipped |-> 0, cachedLate |-> 0]

\* for i, offer := range offers: candidates := fixLocation(offer.Location)
BOffer ==
    /\ geoBatch.pc = "offer"
    /\ geoBatch.i <= Len(geoBatch.offers)
    /\ geoBatch' = [geoBatch EXCEPT !.pc = "candidate",
                                    !.cands = geoBatch.offers[geoBatch.i],
                                    !.found = FALSE]
    /\ UNCHANGED <<gcVars, GbOthers>>

\* the offers are exhausted: return rejected, nil
BReturn ==
    /\ geoBatch.pc = "offer"
    /\ geoBatch.i > Len(geoBatch.offers)
    /\ geoBatch' = [geoBatch EXCEPT !.pc = "done"]
    /\ UNCHANGED <<gcVars, GbOthers>>

\* the candidates are exhausted, or the loop was left: if !found { rejected++ }
BOfferEnd ==
    /\ geoBatch.pc = "candidate"
    /\ geoBatch.cands = <<>>
    /\ geoBatch' = [geoBatch EXCEPT !.pc = "offer", !.i = @ + 1,
                       !.rejected = IF geoBatch.found THEN @ ELSE @ + 1]
    /\ UNCHANGED <<gcVars, GbOthers>>

Candidate == GetCachedLocation(gcCache, Head(geoBatch.cands), <<102, 114>>)

\* GetCachedLocation fails, gives a position or knows there is none
BCached ==
    /\ geoBatch.pc = "candidate"
    /\ geoBatch.cands # <<>>
    /\ Candidate.err \/ ~Candidate.loc.nil \/ Candidate.found
    /\ geoBatch' =
           IF Candidate.err
           THEN [geoBatch EXCEPT !.pc = "done", !.err = "cache"]
           ELSE [geoBatch EXCEPT
                    !.cands = <<>>,
                    !.found = ~Candidate.loc.nil,
                    !.cachedLate = IF geoBatch.spent THEN @ + 1 ELSE @]
    /\ UNCHANGED <<gcVars, GbOthers>>

\* the cache does not know the candidate: if !quota { continue }
BNoQuota ==
    /\ geoBatch.pc = "candidate"
    /\ geoBatch.cands # <<>>
    /\ ~(Candidate.err \/ ~Candidate.loc.nil \/ Candidate.found)
    /\ ~geoBatch.quota
    /\ geoBatch' = [geoBatch EXCEPT !.cands = Tail(@), !.skipped = @ + 1]
    /\ UNCHANGED <<gcVars, GbOthers>>

\* the cache does not know the candidate: geocoder.Geocode(c, "fr", false)
BGeocode ==
    /\ geoBatch.pc = "candidate"
    /\ geoBatch.cands # <<>>
    /\ ~(Candidate.err \/ ~Candidate.loc.nil \/ Candidate.found)
    /\ geoBatch.quota
    /\ \E remote \in BatchRemotes :
           LET r == Geocode(gcCache, Head(geoBatch.cands), <<102, 114>>,
                            FALSE, remote)
               called == IF r.called THEN 1 ELSE 0
               history == [geoBatch EXCEPT
                   !.calls = @ + called,
                   !.late = IF geoBatch.spent THEN @ + called ELSE @,
                   !.spent = @ \/ (r.called /\
                       (remote.err = QuotaError
                            \/ (remote.err = NoErr
                                    /\ remote.remaining <= geoBatch.minQuota))),
                   !.quotaErrs = IF r.err = QuotaError THEN @ + 1 ELSE @]
           IN /\ gcCache' = r.cache
              /\ geoBatch' =
                     IF r.err # NoErr /\ r.err # QuotaError
                     THEN [history EXCEPT !.pc = "done", !.err = r.err]
                     ELSE [history EXCEPT
                              !.cands = Tail(@),
                              !.quota = QuotaLeft(@, r.err, remote.remaining,
                                                  geoBatch.minQuota),
                              !.found = @ \/ (r.err = NoErr
                                                 /\ ~buildLocation(r.res).nil)]
    /\ UNCHANGED <<gcHist, GbOthers>>

GbNext ==
    \/ BOffer
    \/ BReturn
    \/ BOfferEnd
    \/ BCached
    \/ BNoQuota
    \/ BGeocode

SpecGeoBatch == GbInit /\ [][GbNext]_vars

\* C30: once a remote call of the batch has failed with the quota error or
\* reported a remaining quota at or under minQuota, the batch issues no
\* other remote call; the quota error is never what the batch returns: it
\* returns an error only for another failure, and otherwise returns after the
\* last offer.
C30_QuotaPreserved ==
    /\ geoBatch.late = 0
    /\ geoBatch.spent => ~geoBatch.quota
    /\ geoBatch.pc = "done" =>
           \/ geoBatch.err = NoErr /\ geoBatch.i = Len(geoBatch.offers) + 1
           \/ geoBatch.err \in {"http", "json", "cache"}

\* a batch that met the quota error, then skipped a candidate, resolved
\* another one from the cache and went through every offer
C30_Witness ==
    /\ geoBatch.pc = "done"
    /\ geoBatch.err = NoErr
    /\ geoBatch.quotaErrs = 1
    /\ geoBatch.calls = 2
    /\ geoBatch.skipped > 0
    /\ geoBatch.cachedLate > 0
    /\ geoBatch.i = Len(geoBatch.offers) + 1

----------------------------------------------------------------------------
(* The deletion journal of the Store of store.go, checked under SpecStore *)

\* json.Unmarshal(data, deletedKeys): no input, nil included, is an error
JsonUnmarshalDeleted(data) ==
    IF Len(data.b) = 0 THEN [ids |-> <<>>, err |-> TRUE]
    ELSE [ids |-> UnmarshalDeleted(data.b), err |-> FALSE]

\* Store.ListDeletedOffers: [ids, err]
ListDeletedOffers(db, id) ==
    JsonUnmarshalDeleted(TxGet(db, storeMaxSize, kvDeletedKeysBucket, id))

IsPrefixOf(a, b) == Len(a) <= Len(b) /\ SubSeq(b, 1, Len(a)) = a

\* every virtual id recorded in the journal of some offer id
JournalIds(db) ==
    UNION {{r.Id : r \in Range(ListDeletedOffers(db, id).ids)} : id \in StoreIds}

\* C31: the deletion journal is append-only.  No step changes or removes the
\* payload stored under a virtual id; the Delete of a live offer adds one
\* record at the end of the list of its id, with a virtual id greater than
\* every one recorded before, resolving to the bytes that were live; no other
\* call changes the list of any id.
C31_AppendOnly ==
    [][sdb' # sdb =>
          /\ \A d \in 1..MaxDeleted :
                 ~StoreGetDeleted(sdb, d).nil =>
                     StoreGetDeleted(sdb', d) = StoreGetDeleted(sdb, d)
          /\ IF sLast'.op = "delete" /\ ~sLast'.pre.nil
             THEN LET old == ListDeletedOffers(sdb, sLast'.id).ids
                      new == ListDeletedOffers(sdb', sLast'.id).ids
                  IN /\ Len(new) = Len(old) + 1
                     /\ IsPrefixOf(old, new)
                     /\ \A d \in JournalIds(sdb) : new[Len(new)].Id > d
                     /\ StoreGetDeleted(sdb', new[Len(new)].Id) = sLast'.pre
                     /\ \A id \in StoreIds \ {sLast'.id} :
                            ListDeletedOffers(sdb', id)
                                = ListDeletedOffers(sdb, id)
             ELSE \A id \in StoreIds :
                      ListDeletedOffers(sdb', id) = ListDeletedOffers(sdb, id)
      ]_vars

\* one id deleted twice, with other bytes the second time
C31_Witness ==
    /\ sLast.op = "delete"
    /\ sLast.pre = Bytes(<<>>)
    /\ ListDeletedOffers(sdb, sLast.id).ids # <<>>
    /\ Len(ListDeletedOffers(sdb, sLast.id).ids) = 2
    /\ ListDeletedOffers(sdb, sLast.id).ids[1].Id = 1
    /\ ListDeletedOffers(sdb, sLast.id).ids[2].Id = 2
    /\ StoreGetDeleted(sdb, 1) = Bytes(<<2, 3>>)
    /\ StoreGetDeleted(sdb, 2) = Bytes(<<>>)

\* C32: Delete(id, t) of an id with no live offer succeeds and leaves the
\* database as it was, and ListDeletedOffers of an id that was never deleted
\* is the empty list, without error.
C32_DeleteMissing ==
    [][(sLast'.op = "delete" /\ sLast'.pre.nil) =>
          /\ ~sLast'.err
          /\ sdb' = sdb
          /\ sLast'.id \notin Range(StoreListDeletedIds(sdb)) =>
                 ListDeletedOffers(sdb', sLast'.id)
                     = [ids |-> <<>>, err |-> FALSE]
      ]_vars

\* a Delete of an id that never held an offer, after which the list of its
\* deleted offers is an error
C32_ListFails ==
    /\ sLast.op = "delete"
    /\ sLast.pre.nil
    /\ sLast.id \notin Range(StoreListDeletedIds(sdb))
    /\ ListDeletedOffers(sdb, sLast.id).err

----------------------------------------------------------------------------
(* The cursor of the IndexQueue, checked under SpecQueue *)

\* the sequence numbers of the stored entries
StoredSeqs == {n \in 1..(MaxQueued + 1) : Uvarint(n) \in DOMAIN queue.bucket}

\* C33: the stored entries occupy a contiguous range of sequence numbers
\* ending at the last one allocated; when the queue is not empty minSeq is
\* the smallest of them; when it was drained minSeq is the next sequence
\* number to be allocated, and the entries of a QueueMany that follows a
\* complete drain are what FetchMany returns.
C33_Cursor ==
    /\ Cardinality(StoredSeqs) = QueueSize(queue)
    /\ \A a \in StoredSeqs : \A n \in a..queue.seq : n \in StoredSeqs
    /\ StoredSeqs # {} =>
           /\ getMinSeq(queue).ok
           /\ getMinSeq(queue).seq \in StoredSeqs
           /\ \A n \in StoredSeqs : getMinSeq(queue).seq <= n
    /\ (StoredSeqs = {} /\ qDel > 0) =>
           /\ getMinSeq(queue).ok
           /\ getMinSeq(queue).seq = queue.seq + 1
    /\ (qLast.op = "queue" /\ QueueSize(qLast.pre) = 0) =>
           /\ Len(FetchMany(queue, qLast.n)) = qLast.n
           /\ \A i \in 1..qLast.n :
                  /\ FetchMany(queue, qLast.n)[i].Seq = qLast.pre.seq + i
                  /\ FetchMany(queue, qLast.n)[i].Id
                         = qLog[Len(qLog) - qLast.n + i].Id

\* two entries queued on a queue that held two entries and was drained
C33_Witness ==
    /\ qLast.op = "queue"
    /\ qLast.n = 2
    /\ QueueSize(qLast.pre) = 0
    /\ qDel = 2
    /\ getMinSeq(qLast.pre).seq = 3
    /\ getMinSeq(queue).seq = 3
    /\ Len(FetchMany(queue, 2)) = 2


(***************************************************************************)
(* Indexer.resetQueue on its own: SpecReset                                *)
(***************************************************************************)

ResetIds == {<<49>>, <<50>>, <<51>>}

\* the lists store.List() and listIndexIds can return: each id at most
\* once, in any order
IdLists ==
    {l \in UNION {[1..n -> ResetIds] : n \in 0..Cardinality(ResetIds)} :
        \A i, j \in 1..Len(l) : i # j => l[i] # l[j]}

MaxResetQueued == 2

RsOthers == <<kvVars, stVars, quVars, crVars, ixVars, gcVars, txVars, agVars, qpVars, enVars, thVars, gbVars, spVars, wbVars, fdVars, vwVars>>

RsInit ==
    /\ KVIdle
    /\ StIdle
    /\ QuIdle
    /\ CrIdle
    /\ IxIdle
    /\ GcIdle
    /\ TxIdle
    /\ AgIdle
    /\ QpIdle
    /\ EnIdle
    /\ ThIdle
    /\ GbIdle
    /\ SpIdle
    /\ WbIdle
    /\ FdIdle
    /\ VwIdle
    /\ \E stored \in IdLists, indexed \in IdLists :
           resetQ = [pc |-> "queued", stored |-> stored, indexed |-> indexed,
                     queue |-> EmptyQueue, before |-> EmptyQueue]

\* an operation queued before the reset
RQueueMany ==
    /\ resetQ.pc = "queued"
    /\ resetQ.queue.seq < MaxResetQueued
    /\ \E item \in QItems :
           resetQ' = [resetQ EXCEPT !.queue = QueueMany(@, <<item>>)]
    /\ UNCHANGED RsOthers

\* operations indexed and deleted before the reset
RDeleteMany ==
    /\ resetQ.pc = "queued"
    /\ QueueSize(resetQ.queue) > 0
    /\ resetQ' = [resetQ EXCEPT !.queue = DeleteMany(@, 1)]
    /\ UNCHANGED RsOthers

\* resetQueue on the two lists
RReset ==
    /\ resetQ.pc = "queued"
    /\ resetQ' = [resetQ EXCEPT
                      !.pc = "reset",
                      !.before = resetQ.queue,
                      !.queue = QueueMany(DeleteMany(resetQ.queue,
                                                     QueueSize(resetQ.queue)),
                                          resetOps(resetQ.stored,
                                                   resetQ.indexed))]
    /\ UNCHANGED RsOthers

RsNext == RQueueMany \/ RDeleteMany \/ RReset

SpecReset == RsInit /\ [][RsNext]_vars

\* everything the queue holds, in the order FetchMany returns it
QueueItems(q) == FetchMany(q, QueueSize(q))

OpsOf(q, op) == SelectSeq(QueueItems(q), LAMBDA it : it.Op = op)

\* C34: after a reset the queue holds one remove operation for each id that
\* is indexed and not stored, then one add operation for each id that is
\* stored and not indexed, and nothing else; what was queued before is gone
\* (the new operations take sequence numbers after every earlier one)
C34_ResetQueue ==
    resetQ.pc = "reset" =>
        LET items == QueueItems(resetQ.queue)
            rem == OpsOf(resetQ.queue, RemoveOp)
            add == OpsOf(resetQ.queue, AddOp)
        IN  /\ items = rem \o add
            /\ QueueSize(resetQ.queue) = Len(items)
            /\ {it.Id : it \in Range(rem)} =
                   Range(resetQ.indexed) \ Range(resetQ.stored)
            /\ {it.Id : it \in Range(add)} =
                   Range(resetQ.stored) \ Range(resetQ.indexed)
            /\ \A i, j \in 1..Len(items) :
                   i # j => <<items[i].Id, items[i].Op>> #
                            <<items[j].Id, items[j].Op>>
            /\ \A it \in Range(items) : it.Seq > resetQ.before.seq
            /\ DOMAIN resetQ.queue.bucket =
                   {Uvarint(it.Seq) : it \in Range(items)}

\* a reset over unsorted lists that removes and adds, on a queue that held
\* an operation
C34_Witness ==
    /\ resetQ.pc = "reset"
    /\ QueueSize(resetQ.before) > 0
    /\ resetQ.stored = <<<<51>>, <<49>>>>
    /\ resetQ.indexed = <<<<50>>, <<49>>>>
    /\ Len(QueueItems(resetQ.queue)) = 2


(***************************************************************************)
(* The spatial indexer (spatialindexer.go, spatial.go): SpecSpatial        *)
(***************************************************************************)

Lyon == [Paris EXCEPT !.City = <<76>>, !.Lat = 45, !.Lon = 4]

\* makeOfferLocation: [nil, o]; the box of extent locExtent centred on
\* (lon, lat) is kept as its centre
makeOfferLocation(id, date, loc) ==
    IF loc.nil THEN [nil |-> TRUE, o |-> <<>>]
    ELSE [nil |-> FALSE,
          o |-> [Id |-> id, Date |-> date, Lon |-> loc.v.Lon, Lat |-> loc.v.Lat]]

\* what getOfferLocation makes of the offer and of the cached location it
\* read: nothing for a missing offer or a missing location
OfferLocation(offer, l) ==
    IF offer.err \/ offer.nil THEN [nil |-> TRUE, o |-> <<>>, err |-> offer.err]
    ELSE IF l.err \/ l.loc.nil THEN [nil |-> TRUE, o |-> <<>>, err |-> l.err]
    ELSE [nil |-> FALSE, o |-> makeOfferLocation(offer.id, ZeroTime, l.loc).o,
          err |-> FALSE]

\* getOfferLocation: [nil, o, err]
getOfferLocation(db, id) ==
    OfferLocation(getStoreOffer(db, id), StoreGetLocation(db, id))

\* the entries of the R-tree with the number of times each is held
\* rtree.Insert
RtreeInsert(tree, o) ==
    [x \in DOMAIN tree \cup {o} |->
        IF x # o THEN tree[x] ELSE IF o \in DOMAIN tree THEN tree[o] + 1 ELSE 1]

\* rtree.Delete: one occurrence of the entry leaves the tree
RtreeDelete(tree, o) ==
    IF o \notin DOMAIN tree THEN tree
    ELSE IF tree[o] = 1 THEN [x \in DOMAIN tree \ {o} |-> tree[x]]
    ELSE [tree EXCEPT ![o] = @ - 1]

NewSpatialIndex == [known |-> <<>>, rtree |-> <<>>]

\* SpatialIndex.Add: the earlier entry of the id leaves the tree
SpatialAdd(s, o) ==
    LET tree == IF o.Id \in DOMAIN s.known
                THEN RtreeDelete(s.rtree, s.known[o.Id])
                ELSE s.rtree
    IN  [known |-> BucketPut(s.known, o.Id, o), rtree |-> RtreeInsert(tree, o)]

\* SpatialIndex.Remove
SpatialRemove(s, id) ==
    IF id \in DOMAIN s.known
    THEN [known |-> BucketDelete(s.known, id),
          rtree |-> RtreeDelete(s.rtree, s.known[id])]
    ELSE s

\* SpatialIndex.List: make([]string, len(known)) then one append per id, so
\* as many empty strings as ids come first (the ids in map order, sorted
\* by diffIds anyway)
SpatialList(s) ==
    [i \in 1..Cardinality(DOMAIN s.known) |-> <<>>] \o SortKeys(DOMAIN s.known)

RECURSIVE SyncRemove(_, _, _)
SyncRemove(s, removed, i) ==
    IF i > Len(removed) THEN s
    ELSE SyncRemove(SpatialRemove(s, removed[i]), removed, i + 1)

\* loc, err := getOfferLocation(...); if loc != nil { idx.index.Add(loc) }
AddLocated(s, loc) ==
    [s |-> IF loc.err \/ loc.nil THEN s ELSE SpatialAdd(s, loc.o), err |-> loc.err]

\* the loop over added, r = [s, err] so far: it returns at the first error
RECURSIVE SyncAdd(_, _, _, _)
SyncAdd(db, r, added, i) ==
    IF r.err \/ i > Len(added) THEN r
    ELSE SyncAdd(db, AddLocated(r.s, getOfferLocation(db, added[i])),
                 added, i + 1)

\* what sync does with the two lists of diffIds
SyncLists(db, s, d) ==
    SyncAdd(db, [s |-> SyncRemove(s, d.removed, 1), err |-> FALSE], d.added, 1)

\* SpatialIndexer.sync: [s, err]
sync(db, s) == SyncLists(db, s, diffIds(StoreList(db), SpatialList(s)))

MaxSpatialOps == 4

SpatialLocs == {NoLoc, Loc(Paris), Loc(Lyon)}

SpOthers == <<kvVars, stVars, quVars, crVars, ixVars, gcVars, txVars, agVars, qpVars, enVars, thVars, gbVars, rsVars, wbVars, fdVars, vwVars>>

SpInit ==
    /\ KVIdle
    /\ StIdle
    /\ QuIdle
    /\ CrIdle
    /\ IxIdle
    /\ GcIdle
    /\ TxIdle
    /\ AgIdle
    /\ QpIdle
    /\ EnIdle
    /\ ThIdle
    /\ GbIdle
    /\ RsIdle
    /\ WbIdle
    /\ FdIdle
    /\ VwIdle
    /\ spStore = OpenNewStore
    /\ spIndex = NewSpatialIndex
    /\ spLast = [op |-> "open", err |-> FALSE, n |-> 0]

\* Store.Put of an offer that decodes, or of one that does not
SpPut ==
    /\ spLast.n < MaxSpatialOps
    /\ \E id \in StoreIds : \E data \in {GoodOffer(id), BadOffer(id)} :
           /\ spStore' = StorePut(spStore, id, data)
           /\ spLast' = [op |-> "put", err |-> FALSE, n |-> spLast.n + 1]
    /\ UNCHANGED <<spIndex, SpOthers>>

SpDelete ==
    /\ spLast.n < MaxSpatialOps
    /\ \E id \in StoreIds :
           /\ spStore' = StoreDelete(spStore, id, TimeUnix(4))
           /\ spLast' = [op |-> "delete", err |-> FALSE, n |-> spLast.n + 1]
    /\ UNCHANGED <<spIndex, SpOthers>>

SpPutLocation ==
    /\ spLast.n < MaxSpatialOps
    /\ \E id \in StoreIds, loc \in SpatialLocs :
           LET r == StorePutLocation(spStore, id, loc, TimeUnix(3))
           IN  /\ spStore' = r.db
               /\ spLast' = [op |-> "putLocation", err |-> r.err,
                             n |-> spLast.n + 1]
    /\ UNCHANGED <<spIndex, SpOthers>>

\* one run of sync by the dispatch loop
SpSync ==
    /\ LET r == sync(spStore, spIndex)
       IN  /\ spIndex' = r.s
           /\ spLast' = [spLast EXCEPT !.op = "sync", !.err = r.err]
    /\ UNCHANGED <<spStore, SpOthers>>

SpNext == SpPut \/ SpDelete \/ SpPutLocation \/ SpSync

SpecSpatial == SpInit /\ [][SpNext]_vars

\* the live ids whose cached location is resolved
Located(db) ==
    {id \in Range(StoreList(db)) : ~StoreGetLocation(db, id).loc.nil}

\* the entry of an indexed id lies on the location the store caches for it
AtCachedPosition(db, s, id) ==
    LET l == StoreGetLocation(db, id).loc
    IN  ~l.nil /\ s.known[id].Lon = l.v.Lon /\ s.known[id].Lat = l.v.Lat

\* C35: after a sync without error the indexed ids are the live ids with a
\* resolved cached location, the R-tree holds one entry per indexed id and
\* no other, and no id stays indexed at a position the store has dropped
C35_SyncReconciles ==
    (spLast.op = "sync" /\ ~spLast.err) =>
        /\ DOMAIN spIndex.known = Located(spStore)
        /\ spIndex.rtree = [o \in {spIndex.known[id] : id \in DOMAIN spIndex.known} |-> 1]
        /\ \A id \in DOMAIN spIndex.known :
               AtCachedPosition(spStore, spIndex, id)

\* a sync without error has left an id indexed although the store holds
\* the offer again without a location
C35_StaleEntry ==
    /\ spLast.op = "sync"
    /\ ~spLast.err
    /\ \E id \in DOMAIN spIndex.known :
           /\ StoreHas(spStore, id)
           /\ StoreGetLocation(spStore, id).loc.nil


----------------------------------------------------------------------------
(* Live offers during a crawl cycle, checked under SpecCrawl *)

\* the bytes and the cached location of id are what they were
SameOffer(id) ==
    /\ StoreGet(cdb', id) = StoreGet(cdb, id)
    /\ StoreGetLocation(cdb', id) = StoreGetLocation(cdb, id)

\* the step is the fetcher's turn for id
FetcherTurn(id) ==
    /\ fetcher.pc = "crawl"
    /\ fetcher.ids # <<>>
    /\ Head(fetcher.ids) = id
    /\ fetcher' # fetcher

\* C36: no step of a crawl cycle fetches or overwrites a live offer: a live
\* id keeps its bytes and its cached location unless the deletion step
\* soft-deletes it (it was not seen), and the fetcher's turn for a live id
\* asks the remote for nothing (no 404 recorded, no fetch error)
C36_LiveUntouched ==
    [][\A id \in CrawlIds :
          StoreHas(cdb, id) =>
              /\ \/ SameOffer(id)
                 \/ /\ coord.pc = "delete"
                    /\ id \notin seen
                    /\ ~StoreHas(cdb', id)
                    /\ id \in Range(StoreListDeletedIds(cdb'))
              /\ FetcherTurn(id) =>
                    /\ SameOffer(id)
                    /\ cHist' = cHist
                    /\ fetcher'.err = fetcher.err
                    /\ fetcher'.ids = Tail(fetcher.ids)]_vars

\* the cycle is over: an id that was live with a location and was listed
\* is still there with its location, and another id was fetched and stored
C36_Witness ==
    /\ coord.pc = "done"
    /\ coord.ret = NoErr
    /\ \E id \in CrawlIds :
          /\ id \in seen
          /\ StoreHas(cHist.db0, id)
          /\ ~StoreGetLocation(cHist.db0, id).loc.nil
          /\ StoreGetLocation(cdb, id) = StoreGetLocation(cHist.db0, id)
    /\ \E id \in CrawlIds : ~StoreHas(cHist.db0, id) /\ StoreHas(cdb, id)
    /\ \E id \in CrawlIds : StoreHas(cHist.db0, id) /\ ~StoreHas(cdb, id)


(***************************************************************************)
(* The crawl endpoint and GeocodingHandler.Geocode (web.go): SpecWeb       *)
(***************************************************************************)

\* "crawl": crawlingLock, crawling and the goroutine running crawl;
\* "geocode": h.lock, h.running and the goroutine running h.geocode
Kinds == {"crawl", "geocode"}

\* who calls the guarded start of a kind: the requests of its endpoint, and
\* for Geocode also the crawl goroutine after a successful crawl
Callers == {<<"crawlReq", "crawl">>, <<"geoReq", "geocode">>,
            <<"crawlTask", "geocode">>}

TaskOf(k) == IF k = "crawl" THEN "crawlTask" ELSE "geoTask"

CallPcs == {"lock", "check", "start", "unlock"}
Places == ({"crawlReq", "geoReq", "crawlTask"} \X CallPcs)
              \cup {<<"crawlTask", "run">>, <<"crawlTask", "reset">>,
                    <<"geoTask", "run">>, <<"geoTask", "reset">>}

MaxRequests == 3

\* a mutex that never makes its caller wait
LockFreeAlways(held) == held \/ ~held

\* sync.Mutex.Lock returns once the mutex is not held
LockFree(held) == ~held

Move(at, from, to) == [at EXCEPT ![from] = @ - 1, ![to] = @ + 1]

Enter(at, to) == [at EXCEPT ![to] = @ + 1]

Leave(at, from) == [at EXCEPT ![from] = @ - 1]

\* the goroutines of a kind that have not cleared its flag yet
NumTasks(w, k) ==
    IF k = "crawl"
    THEN w.at[<<"crawlTask", "run">>] + w.at[<<"crawlTask", "reset">>]
         + w.at[<<"crawlTask", "lock">>] + w.at[<<"crawlTask", "check">>]
         + w.at[<<"crawlTask", "start">>] + w.at[<<"crawlTask", "unlock">>]
    ELSE w.at[<<"geoTask", "run">>] + w.at[<<"geoTask", "reset">>]

WbOthers == <<kvVars, stVars, quVars, crVars, ixVars, gcVars, txVars, agVars, qpVars, enVars, thVars, gbVars, rsVars, spVars, fdVars, vwVars>>

WbInit ==
    /\ KVIdle
    /\ StIdle
    /\ QuIdle
    /\ CrIdle
    /\ IxIdle
    /\ GcIdle
    /\ TxIdle
    /\ AgIdle
    /\ QpIdle
    /\ EnIdle
    /\ ThIdle
    /\ GbIdle
    /\ RsIdle
    /\ SpIdle
    /\ FdIdle
    /\ VwIdle
    /\ web = [pc |-> "serving",
              lock |-> [k \in Kinds |-> FALSE],
              flag |-> [k \in Kinds |-> FALSE],
              at |-> [p \in Places |-> 0],
              arrived |-> [k \in Kinds |-> 0],
              started |-> [k \in Kinds |-> 0],
              ended |-> [k \in Kinds |-> "none"],
              last |-> [step |-> "none", kind |-> "crawl", flag |-> FALSE,
                        tasks |-> 0]]

Last(step, k) ==
    [step |-> step, kind |-> k, flag |-> web.flag[k], tasks |-> NumTasks(web, k)]

\* a POST reaches the endpoint of kind k
WebArrive(k) ==
    /\ web.pc = "serving"
    /\ web.arrived[k] < MaxRequests
    /\ LET c == IF k = "crawl" THEN "crawlReq" ELSE "geoReq"
       IN  web' = [web EXCEPT !.at[<<c, "lock">>] = @ + 1,
                              !.arrived[k] = @ + 1,
                              !.last = Last("arrive", k)]
    /\ UNCHANGED WbOthers

\* crawlingLock.Lock() / h.lock.Lock()
WebLock(c, k) ==
    /\ web.pc = "serving"
    /\ web.at[<<c, "lock">>] > 0
    /\ LockFree(web.lock[k])
    /\ web' = [web EXCEPT !.lock[k] = TRUE,
                          !.at = Move(@, <<c, "lock">>, <<c, "check">>),
                          !.last = Last("lock", k)]
    /\ UNCHANGED WbOthers

\* if !crawling { ... } / if h.running { return }
WebCheck(c, k) ==
    /\ web.pc = "serving"
    /\ web.at[<<c, "check">>] > 0
    /\ web' = [web EXCEPT
                   !.at = Move(@, <<c, "check">>,
                               <<c, IF web.flag[k] THEN "unlock" ELSE "start">>),
                   !.last = Last("check", k)]
    /\ UNCHANGED WbOthers

\* crawling = true; go func() { ... }() / h.running = true; go func() { ... }()
WebStart(c, k) ==
    /\ web.pc = "serving"
    /\ web.at[<<c, "start">>] > 0
    /\ web' = [web EXCEPT
                   !.flag[k] = TRUE,
                   !.started[k] = @ + 1,
                   !.at = Enter(Move(@, <<c, "start">>, <<c, "unlock">>),
                                <<TaskOf(k), "run">>),
                   !.last = Last("start", k)]
    /\ UNCHANGED WbOthers


\* the deferred Unlock of the caller; the crawl goroutine goes on to its own
\* deferred function, a request is answered
WebUnlock(c, k) ==
    /\ web.pc = "serving"
    /\ web.at[<<c, "unlock">>] > 0
    /\ web' = [web EXCEPT
                   !.lock[k] = FALSE,
                   !.at = IF c = "crawlTask"
                          THEN Move(@, <<c, "unlock">>, <<c, "reset">>)
                          ELSE Leave(@, <<c, "unlock">>),
                   !.last = Last("unlock", k)]
    /\ UNCHANGED WbOthers

\* crawl returned nil: indexer.Sync(), spatialIndexer.Sync(), then
\* geocodingHandler.Geocode()
WebCrawlOk ==
    /\ web.pc = "serving"
    /\ web.at[<<"crawlTask", "run">>] > 0
    /\ web' = [web EXCEPT
                   !.at = Move(@, <<"crawlTask", "run">>, <<"crawlTask", "lock">>),
                   !.ended["crawl"] = "ok",
                   !.last = Last("end", "crawl")]
    /\ UNCHANGED WbOthers

\* crawl returned an error: log and return
WebCrawlFails ==
    /\ web.pc = "serving"
    /\ web.at[<<"crawlTask", "run">>] > 0
    /\ web' = [web EXCEPT
                   !.at = Move(@, <<"crawlTask", "run">>, <<"crawlTask", "reset">>),
                   !.ended["crawl"] = "failed",
                   !.last = Last("end", "crawl")]
    /\ UNCHANGED WbOthers

\* h.geocode returned, with or without an error
WebGeocodeEnds ==
    /\ web.pc = "serving"
    /\ web.at[<<"geoTask", "run">>] > 0
    /\ \E outcome \in {"ok", "failed"} :
           web' = [web EXCEPT
                       !.at = Move(@, <<"geoTask", "run">>, <<"geoTask", "reset">>),
                       !.ended["geocode"] = outcome,
                       !.last = Last("end", "geocode")]
    /\ UNCHANGED WbOthers

\* the deferred function of the goroutine: Lock, flag = false, Unlock
WebReset(k) ==
    /\ web.pc = "serving"
    /\ web.at[<<TaskOf(k), "reset">>] > 0
    /\ LockFree(web.lock[k])
    /\ web' = [web EXCEPT
                   !.flag[k] = FALSE,
                   !.at = Leave(@, <<TaskOf(k), "reset">>),
                   !.last = Last("reset", k)]
    /\ UNCHANGED WbOthers

WbNext ==
    \/ \E k \in Kinds : WebArrive(k)
    \/ \E p \in Callers : WebLock(p[1], p[2])
    \/ \E p \in Callers : WebCheck(p[1], p[2])
    \/ \E p \in Callers : WebStart(p[1], p[2])
    \/ \E p \in Callers : WebUnlock(p[1], p[2])
    \/ WebCrawlOk
    \/ WebCrawlFails
    \/ WebGeocodeEnds
    \/ \E k \in Kinds : WebReset(k)

SpecWeb == WbInit /\ [][WbNext]_vars

\* at most one goroutine per kind, and the flag is set exactly while it lives
OneTask ==
    web.pc = "serving" =>
        \A k \in Kinds :
            /\ NumTasks(web, k) <= 1
            /\ web.flag[k] <=> NumTasks(web, k) = 1

\* a caller that tests the flag starts a goroutine exactly when none of the
\* kind is alive, and the start that follows is the only one
CheckDecides ==
    \A p \in Callers :
        LET c == p[1]
            k == p[2]
        IN  /\ web'.at[<<c, "check">>] < web.at[<<c, "check">>] =>
                  IF NumTasks(web, k) > 0
                  THEN /\ web'.at[<<c, "unlock">>] = web.at[<<c, "unlock">>] + 1
                       /\ web'.started = web.started
                  ELSE web'.at[<<c, "start">>] = web.at[<<c, "start">>] + 1
            /\ web'.at[<<c, "start">>] < web.at[<<c, "start">>] =>
                  /\ NumTasks(web, k) = 0
                  /\ NumTasks(web', k) = 1
                  /\ web'.started[k] = web.started[k] + 1

\* C37: the crawl endpoint and Geocode are single-flight: at most one crawl
\* (one geocoding task) at any time, a call made while one is running starts
\* none, a call made after it ended, with or without error, starts one
C37_SingleFlight == []OneTask /\ [][CheckDecides]_vars

\* a second crawl is started after the first failed, a request having been
\* turned away meanwhile, while a geocoding task is running
C37_Witness ==
    /\ web.pc = "serving"
    /\ web.last.step = "start"
    /\ web.last.kind = "crawl"
    /\ web.started["crawl"] = 2
    /\ web.arrived["crawl"] = 3
    /\ web.ended["crawl"] = "failed"
    /\ web.at[<<"crawlReq", "lock">>] + web.at[<<"crawlReq", "check">>] = 0
    /\ web.at[<<"geoTask", "run">>] = 1


(***************************************************************************)
(* findOffersFromLocation (web.go): SpecWhere                              *)
(***************************************************************************)

Comma == 44
Wgs84 == <<119, 103, 115, 56, 52, 58>>          \* "wgs84:"
Fr == <<102, 114>>                              \* "fr"

\* strings.Split(s, ","): the pieces between the commas, one piece for a
\* string without comma
RECURSIVE SplitLoop(_, _, _)
SplitLoop(s, i, piece) ==
    IF i > Len(s) THEN <<piece>>
    ELSE IF s[i] = Comma THEN <<piece>> \o SplitLoop(s, i + 1, <<>>)
    ELSE SplitLoop(s, i + 1, Append(piece, s[i]))

Split(s) == SplitLoop(s, 1, <<>>)

RECURSIVE DecimalValue(_)
DecimalValue(s) ==
    IF s = <<>> THEN 0
    ELSE DecimalValue(SubSeq(s, 1, Len(s) - 1)) * 10 + (s[Len(s)] - 48)

\* strconv.ParseFloat on strings of digits, letters and spaces: [f, err],
\* an error unless the string is a non-empty run of digits
ParseFloat(s) ==
    IF s # <<>> /\ \A i \in 1..Len(s) : s[i] >= 48 /\ s[i] <= 57
    THEN [f |-> DecimalValue(s), err |-> FALSE]
    ELSE [f |-> 0, err |-> TRUE]

DefaultRadius == 30000

\* what a call does: it returns offers, returns an error, or panics
Offers(lat, lon, radius) ==
    [kind |-> "offers", lat |-> lat, lon |-> lon, radius |-> radius]
FindError == [kind |-> "error", lat |-> 0, lon |-> 0, radius |-> 0]
FindPanic == [kind |-> "panic", lat |-> 0, lon |-> 0, radius |-> 0]
FindAll == [kind |-> "offers", lat |-> 0, lon |-> 0, radius |-> -1]

\* SpatialIndex.FindNearest: makeGeoRect fails on a box without extent
FindNearest(lat, lon, radius) ==
    IF radius <= 0 THEN FindError ELSE Offers(lat, lon, radius)

\* the "wgs84:lat,lon[,radius]" branch
FindByCoordinates(query) ==
    LET parts == Split(SubSeq(query, Len(Wgs84) + 1, Len(query)))
        floats == [i \in 1..Len(parts) |-> ParseFloat(parts[i])]
    IN  IF Len(parts) < 2 \/ Len(parts) > 3 THEN FindError
        ELSE IF \E i \in 1..Len(parts) : floats[i].err THEN FindError
        ELSE FindNearest(floats[1].f, floats[2].f,
                         IF Len(parts) = 2 THEN DefaultRadius ELSE floats[3].f)

\* lat = loc.Lat; lon = loc.Lon; the radius; FindNearest: reading the
\* fields of a nil *Location panics
ReadLocation(loc, parts) ==
    LET radius == IF Len(parts) = 2 THEN ParseFloat(TrimSpace(parts[2]))
                  ELSE [f |-> DefaultRadius, err |-> FALSE]
    IN  IF loc.nil THEN FindPanic
        ELSE IF radius.err THEN FindError
        ELSE FindNearest(loc.v.Lat, loc.v.Lon, radius.f)

\* the place-name branch
FindByName(cache, query) ==
    LET parts == Split(query)
        r == GetCachedLocation(cache, ToLower(parts[1]), Fr)
    IN  IF Len(parts) # 1 /\ Len(parts) # 2 THEN FindError
        ELSE IF r.err THEN FindError
        ELSE IF ~r.found THEN FindError
        ELSE ReadLocation(r.loc, parts)

findOffersFromLocation(cache, query) ==
    IF query = <<>> THEN FindAll
    ELSE IF HasPrefix(query, Wgs84) THEN FindByCoordinates(query)
    ELSE FindByName(cache, query)

\* the place names "p", "u" (and "n", never cached)
PlaceNames == {<<112>>, <<117>>}
PlaceLocs == {NoLoc, Loc(Paris)}

\* the where-strings: "", coordinates with 1 to 4 numbers, a bad number, a
\* zero radius; names in both cases, with a radius, a spaced radius, a bad
\* radius, a third part
WhereStrings ==
    {<<>>,
     Wgs84 \o <<52>>,
     Wgs84 \o <<52, 44, 50>>,
     Wgs84 \o <<52, 44, 50, 44, 53>>,
     Wgs84 \o <<52, 44, 50, 44, 48>>,
     Wgs84 \o <<52, 44, 50, 44, 53, 44, 53>>,
     Wgs84 \o <<52, 44, 120>>,
     <<112>>, <<80>>, <<117>>, <<110>>,
     <<112, 44, 53>>, <<112, 44, 32, 53>>, <<112, 44, 120>>, <<112, 44>>,
     <<112, 44, 53, 44, 53>>,
     <<117, 44, 53>>, <<117, 44, 120>>, <<110, 44, 53>>}

FdOthers == <<kvVars, stVars, quVars, crVars, ixVars, gcVars, txVars, agVars, qpVars, enVars, thVars, gbVars, rsVars, spVars, wbVars, vwVars>>

FdInit ==
    /\ KVIdle
    /\ StIdle
    /\ QuIdle
    /\ CrIdle
    /\ IxIdle
    /\ GcIdle
    /\ TxIdle
    /\ AgIdle
    /\ QpIdle
    /\ EnIdle
    /\ ThIdle
    /\ GbIdle
    /\ RsIdle
    /\ SpIdle
    /\ WbIdle
    /\ VwIdle
    /\ finder = [pc |-> "ready", cache |-> EmptyCache, query |-> <<>>,
                 r |-> FindAll, found |-> "none"]

\* the geocoder caches the answer for a place name: a location, or none
FdCachePut ==
    /\ finder.pc = "ready"
    /\ \E name \in PlaceNames, pos \in PlaceLocs :
           finder' = [finder EXCEPT
                          !.cache = CachePut(@, makeKeyAndCountryCode(name, Fr).key,
                                             <<2>>, pos)]
    /\ UNCHANGED FdOthers

\* found: what the cache holds for the name of the query, "none" for the
\* queries that do not look a name up
CacheState(cache, query) ==
    LET parts == Split(query)
        r == GetCachedLocation(cache, ToLower(parts[1]), Fr)
    IN  IF query = <<>> \/ HasPrefix(query, Wgs84) \/ Len(parts) > 2 THEN "none"
        ELSE IF ~r.found THEN "missing"
        ELSE IF r.loc.nil THEN "unresolvable"
        ELSE "resolved"

FdFind ==
    /\ finder.pc = "ready"
    /\ \E query \in WhereStrings :
           finder' = [finder EXCEPT
                          !.query = query,
                          !.found = CacheState(finder.cache, query),
                          !.r = findOffersFromLocation(finder.cache, query)]
    /\ UNCHANGED FdOthers

FdNext == FdCachePut \/ FdFind

SpecWhere == FdInit /\ [][FdNext]_vars

\* C38: every call returns a result list or an error and none crashes; a
\* name cached as unresolvable gives an error, like a name that is not
\* cached
C38_NeverCrashes ==
    /\ finder.r.kind \in {"offers", "error"}
    /\ finder.found \in {"unresolvable", "missing"} => finder.r.kind = "error"

\* the call for a name the cache holds without location has panicked
C38_Panics ==
    /\ finder.found = "unresolvable"
    /\ finder.query = <<117, 44, 53>>
    /\ finder.r.kind = "panic"


----------------------------------------------------------------------------
(* The size counter of a prefix, checked under SpecKV *)

\* C40: after any sequence of committed Put and Delete calls on an
\* initially empty database, Size(p) is the number of keys List(p) returns,
\* for every prefix p, and that is the number of keys that were put and not
\* deleted since
C40_SizeCounts ==
    \A p \in KVPrefixes :
        /\ TxSize(kvdb, p) = Len(TxList(kvdb, p))
        /\ TxSize(kvdb, p) = Cardinality({s \in DOMAIN kvRef : s[1] = p})

\* a multi-chunk value was overwritten and Size counts two keys of the
\* prefix, another prefix having lost its only key
C40_Witness ==
    /\ kvLast.op = "put"
    /\ kvLast.oldLen >= kvMax
    /\ TxSize(kvdb, kvLast.p) = 2
    /\ \E p \in KVPrefixes : p # kvLast.p /\ TxSize(kvdb, p) = 0
    /\ \E s \in DOMAIN kvRef : Len(kvRef[s]) = 0


(***************************************************************************)
(* Store.Put and Store.Delete against a concurrent View: SpecStoreView     *)
(***************************************************************************)

\* the chunk size of the KVDB, small enough for the values to span chunks
viewMaxSize == OpenMaxSize(2)

\* the database after each Set of the loop of Tx.Put
RECURSIVE TxPutSteps(_, _, _, _, _, _)
TxPutSteps(db, maxSize, prefix, key, i, value) ==
    LET full == Len(value) >= maxSize
        k == maxSize - 1
        data == IF full THEN SubSeq(value, 1, k) \o <<0>> ELSE value
        rest == IF full THEN SubSeq(value, k + 1, Len(value)) ELSE <<>>
        db1 == DbSet(db, KVDBKeysNext(prefix, key, i), data)
    IN  IF Len(rest) = 0 THEN <<db1>>
        ELSE <<db1>> \o TxPutSteps(db1, maxSize, prefix, key, i + 1, rest)

\* the database after each write of Tx.Put: the Delete of the earlier
\* chain, each chunk, the size counter
PutStages(db, maxSize, prefix, key, value) ==
    LET db1 == TxDelete(db, maxSize, prefix, key)
        sets == TxPutSteps(db1, maxSize, prefix, key, 1, value)
    IN  <<db1>> \o sets \o <<DbInc(sets[Len(sets)], sizePrefix(prefix), 1)>>

EndOf(db, stages) == IF stages = <<>> THEN db ELSE stages[Len(stages)]

\* the database after each write of the action of Store.Put
StorePutStages(db, id, data) ==
    LET db1 == TxDelete(db, viewMaxSize, kvLocationsBucket, id)
    IN  <<db1>> \o PutStages(db1, viewMaxSize, kvOffersBucket, id, data)

\* the database after each write of the action of Store.Delete; none when
\* the offer is not live
StoreDeleteStages(db, id, now) ==
    LET data == TxGet(db, viewMaxSize, kvOffersBucket, id)
        db1 == TxIncSeq(db, kvDeletedBucket, 1)
        deletedId == TxGetSeq(db1, kvDeletedBucket)
        moved == PutStages(db1, viewMaxSize, kvDeletedBucket,
                           uintToBytes(deletedId), data.b)
        db2 == EndOf(db1, moved)
        old == TxGet(db2, viewMaxSize, kvDeletedKeysBucket, id)
        deletedKeys == Append(IF old.nil THEN <<>> ELSE UnmarshalDeleted(old.b),
                              [Id |-> deletedId, Date |-> RFC3339(now)])
        journal == PutStages(db2, viewMaxSize, kvDeletedKeysBucket, id,
                             MarshalDeleted(deletedKeys))
        db3 == EndOf(db2, journal)
        db4 == TxDelete(db3, viewMaxSize, kvLocationsBucket, id)
    IN  IF data.nil THEN <<>>
        ELSE <<db1>> \o moved \o journal
             \o <<db4, TxDelete(db4, viewMaxSize, kvOffersBucket, id)>>

\* PutLocation: the offer must be live
StorePutLocationStages(db, id, loc) ==
    IF TxGet(db, viewMaxSize, kvOffersBucket, id).nil THEN <<>>
    ELSE PutStages(db, viewMaxSize, kvLocationsBucket, id, loc)

\* what a View can read about an id: the live bytes, the cached location,
\* the deletion journal, the deleted payloads
ReadOffer(db, id) == TxGet(db, viewMaxSize, kvOffersBucket, id)

ReadRest(db, id) ==
    LET journal == TxGet(db, viewMaxSize, kvDeletedKeysBucket, id)
    IN  [loc |-> TxGet(db, viewMaxSize, kvLocationsBucket, id),
         journal |-> journal,
         deleted |-> [i \in 1..(Len(journal.b) \div 2) |->
                         TxGet(db, viewMaxSize, kvDeletedBucket,
                               uintToBytes(UnmarshalDeleted(journal.b)[i].Id))]]

\* an RLock that does not wait for the writer
CanReadAlways(lock) == lock.w \/ ~lock.w

\* RWMutex.RLock returns once no writer holds the lock
CanRead(lock) == ~lock.w

\* RWMutex.Lock returns once nobody holds the lock
CanWrite(lock) == ~lock.w /\ lock.r = 0

MaxViewOps == 3

ViewIds == {<<97>>}
ViewData == {<<5>>, <<5, 6>>}
ViewLoc == <<7, 8>>

VwOthers == <<kvVars, stVars, quVars, crVars, ixVars, gcVars, txVars, agVars, qpVars, enVars, thVars, gbVars, rsVars, spVars, wbVars, fdVars>>

VwInit ==
    /\ KVIdle
    /\ StIdle
    /\ QuIdle
    /\ CrIdle
    /\ IxIdle
    /\ GcIdle
    /\ TxIdle
    /\ AgIdle
    /\ QpIdle
    /\ EnIdle
    /\ ThIdle
    /\ GbIdle
    /\ RsIdle
    /\ SpIdle
    /\ WbIdle
    /\ FdIdle
    /\ kview = [pc |-> "open",
                db |-> EmptyDB, com |-> EmptyDB, before |-> EmptyDB,
                prev |-> EmptyDB,
                lock |-> [w |-> FALSE, r |-> 0],
                writer |-> [pc |-> "idle", op |-> "none", stages |-> <<>>],
                reader |-> [pc |-> "idle", id |-> <<>>, at |-> EmptyDB,
                            offer |-> NilBytes,
                            rest |-> ReadRest(EmptyDB, <<>>)],
                n |-> 0]

\* KVDB.Update: Lock and BeginTransaction, for Store.Put, Store.Delete or
\* Store.PutLocation
VUpdate ==
    /\ kview.writer.pc = "idle"
    /\ kview.n < MaxViewOps
    /\ CanWrite(kview.lock)
    /\ \E id \in ViewIds :
       \E call \in {[op |-> "put", stages |-> StorePutStages(kview.db, id, d)]
                        : d \in ViewData}
                   \cup {[op |-> "delete",
                          stages |-> StoreDeleteStages(kview.db, id, TimeUnix(4))],
                         [op |-> "putLocation",
                          stages |-> StorePutLocationStages(kview.db, id, ViewLoc)]} :
           kview' = [kview EXCEPT
                         !.lock.w = TRUE,
                         !.before = kview.db,
                         !.writer = [pc |-> "update", op |-> call.op,
                                     stages |-> call.stages],
                         !.n = @ + 1]
    /\ UNCHANGED VwOthers

\* the next write of the action
VWrite ==
    /\ kview.writer.pc = "update"
    /\ kview.writer.stages # <<>>
    /\ kview' = [kview EXCEPT !.db = Head(kview.writer.stages),
                              !.writer.stages = Tail(@)]
    /\ UNCHANGED VwOthers

\* the action returned nil: Commit, Unlock
VCommit ==
    /\ kview.writer.pc = "update"
    /\ kview.writer.stages = <<>>
    /\ kview' = [kview EXCEPT !.com = kview.db,
                              !.prev = kview.com,
                              !.lock.w = FALSE,
                              !.writer.pc = "idle"]
    /\ UNCHANGED VwOthers

\* a write failed: the deferred Rollback, Unlock
VRollback ==
    /\ kview.writer.pc = "update"
    /\ kview.writer.stages # <<>>
    /\ kview' = [kview EXCEPT !.db = kview.before,
                              !.lock.w = FALSE,
                              !.writer.pc = "idle",
                              !.writer.stages = <<>>]
    /\ UNCHANGED VwOthers

\* KVDB.View: RLock
VView ==
    /\ kview.reader.pc = "idle"
    /\ CanRead(kview.lock)
    /\ \E id \in ViewIds :
           kview' = [kview EXCEPT !.lock.r = @ + 1,
                                  !.reader.pc = "offer",
                                  !.reader.id = id,
                                  !.reader.at = kview.com]
    /\ UNCHANGED VwOthers

\* the action of the View reads the live offer
VReadOffer ==
    /\ kview.reader.pc = "offer"
    /\ kview' = [kview EXCEPT
                     !.reader.pc = "rest",
                     !.reader.offer = ReadOffer(kview.db, kview.reader.id)]
    /\ UNCHANGED VwOthers

\* then the location, the journal and the deleted payloads
VReadRest ==
    /\ kview.reader.pc = "rest"
    /\ kview' = [kview EXCEPT
                     !.reader.pc = "unlock",
                     !.reader.rest = ReadRest(kview.db, kview.reader.id)]
    /\ UNCHANGED VwOthers

\* the deferred RUnlock
VUnlock ==
    /\ kview.reader.pc = "unlock"
    /\ kview' = [kview EXCEPT !.lock.r = @ - 1, !.reader.pc = "idle"]
    /\ UNCHANGED VwOthers

VwNext ==
    \/ VUpdate \/ VWrite \/ VCommit \/ VRollback
    \/ VView \/ VReadOffer \/ VReadRest \/ VUnlock

SpecStoreView == VwInit /\ [][VwNext]_vars

\* C39: a View sees the database as the last committed Update left it: what
\* it read of an id (live bytes, location, journal, deleted payloads) is
\* what that state holds, whole values only; no Update writes while a View
\* holds the lock; and in what it read an id without live offer has no
\* location, and every journal record leads to a deleted payload
C39_ViewsAtomic ==
    kview.pc = "open" =>
        /\ kview.lock.r > 0 => kview.writer.pc = "idle" /\ kview.db = kview.com
        /\ kview.reader.pc \in {"rest", "unlock"} =>
               kview.reader.offer = ReadOffer(kview.reader.at, kview.reader.id)
        /\ kview.reader.pc = "unlock" =>
               /\ kview.reader.rest = ReadRest(kview.reader.at, kview.reader.id)
               /\ kview.reader.offer.nil => kview.reader.rest.loc.nil
               /\ \A i \in DOMAIN kview.reader.rest.deleted :
                      ~kview.reader.rest.deleted[i].nil

\* a View that waited for a Delete of a located two-chunk offer: it read no
\* live offer, no location, one journal record and the two-chunk payload
C39_Witness ==
    /\ kview.pc = "open"
    /\ kview.reader.pc = "unlock"
    /\ kview.n = MaxViewOps
    /\ kview.writer.op = "delete"
    /\ kview.reader.offer.nil
    /\ Len(kview.reader.rest.deleted) = 1
    /\ kview.reader.rest.deleted[1] = Bytes(<<5, 6>>)
    /\ ~TxGet(kview.prev, viewMaxSize, kvLocationsBucket, <<97>>).nil

============================================================================
